---- MODULE Spec2Model ----
(***************************************************************************)
(* Model of the TurtlePay blockchain-database collector: the relational    *)
(* store kept by BlockchainDB, the sync tick of Collector.init with its    *)
(* rewind, index-fetch and header-fetch subroutines, the upstream daemon   *)
(* it polls, and the info / pool tickers.                                  *)
(***************************************************************************)
EXTENDS Integers, Naturals, Sequences, FiniteSets, TLC

(***************************************************************************)
(* Bounds of the model.                                                    *)
(***************************************************************************)
\* lengths of the mirrored chain found in the database when init() returns
InitLens == {1, 10, 32}
\* how many blocks the upstream may be ahead of the initial database
MaxAhead == 2
\* number of reorganisations the upstream performs
MaxReorgs == 1
\* how deep below its top the upstream reorganises
ReorgDepth == 2
\* number of injected faults (rejected RPCs, failed queries / transactions,
\* short index answers) per behaviour
MaxFails == 1
\* the same where the index fetch is exercised alone
MaxIndexFails == 2
\* block_batch_size handed to the Collector constructor
DefaultBatch == 3
\* pool snapshots the upstream goes through, and concurrent tick bodies
\* followed per ticker
MaxPoolVer == 3
MaxBodies == 2
\* pool ticks emitted per behaviour
MaxPoolTicks == 4

(***************************************************************************)
(* Program constants.                                                      *)
(***************************************************************************)
HeaderStep == 30
IndexChunk == 10
TopCheckpoints == 11
MinBatch == 2
BatchNoopAt == 100
\* block_batch_size = 100, the constructor's default
BootBatch == 100
BulkAttempts == 4

NULL == -1

(***************************************************************************)
(* Blocks and transactions.  A block hash is <<height, version>>: the      *)
(* height is what Block.from(data).height decodes, the version tells the   *)
(* blocks of a replaced suffix from the ones that replace them.  A         *)
(* transaction hash is <<block hash, k>>, k = 0 the miner transaction.     *)
(***************************************************************************)
Height(b) == b[1]

\* the transactions loadRawBlock puts in block.txns: miner transaction first,
\* then the raw block's user transactions (here: one, in odd blocks)
TxnsOf(b) == IF Height(b) % 2 = 1 THEN <<  <<b, 0>>, <<b, 1>> >> ELSE << <<b, 0>> >>

IsCoinbase(t) == t[2] = 0
BlockOf(t) == t[1]
\* key inputs and payment ids exist on user transactions only
HasKeyInput(t) == ~IsCoinbase(t)
HasPaymentId(t) == ~IsCoinbase(t)
\* the global index the daemon reports for the (single) output of t: the
\* number of outputs of the same amount in the chain before it
GlobalIdxOf(t) == Height(BlockOf(t)) + (Height(BlockOf(t)) \div 2) + t[2]
\* every output carries the same amount; no output carries another amount
AmountOf(t) == 1
\* the utctimestamp column of the block's blockchain row
utctimestamp(b) == 2 * Height(b) + 1

Range(s) == {s[i] : i \in DOMAIN s}

RECURSIVE Flatten(_)
Flatten(ss) ==
    IF Len(ss) = 0 THEN <<>>
    ELSE IF Len(ss) = 1 THEN ss[1]
    ELSE LET half == Len(ss) \div 2 IN
         Flatten(SubSeq(ss, 1, half)) \o Flatten(SubSeq(ss, half + 1, Len(ss)))

SetMin(S) == CHOOSE x \in S : \A y \in S : x <= y
SetMax(S) == CHOOSE x \in S : \A y \in S : x >= y

\* ascending / descending enumeration of a set of integers
RECURSIVE Ascending(_)
Ascending(S) ==
    IF S = {} THEN <<>>
    ELSE LET lo == SetMin(S)
             hi == SetMax(S)
             mid == (lo + hi) \div 2 IN
         IF lo = hi THEN <<lo>>
         ELSE Ascending({x \in S : x <= mid}) \o Ascending({x \in S : x > mid})
RECURSIVE Descending(_)
Descending(S) ==
    IF S = {} THEN <<>>
    ELSE LET lo == SetMin(S)
             hi == SetMax(S)
             mid == (lo + hi) \div 2 IN
         IF lo = hi THEN <<lo>>
         ELSE Descending({x \in S : x > mid}) \o Descending({x \in S : x <= mid})

(***************************************************************************)
(* Array.prototype.sort() without a comparator: elements are compared as   *)
(* strings, i.e. by their decimal digits, lexicographically.               *)
(***************************************************************************)
RECURSIVE Digits(_)
Digits(n) == IF n < 10 THEN <<n>> ELSE Digits(n \div 10) \o <<n % 10>>

RECURSIVE SeqLess(_, _)
SeqLess(a, b) ==
    IF a = <<>> THEN b # <<>>
    ELSE IF b = <<>> THEN FALSE
    ELSE IF Head(a) # Head(b) THEN Head(a) < Head(b)
    ELSE SeqLess(Tail(a), Tail(b))

StringLess(m, n) == SeqLess(Digits(m), Digits(n))

\* l_heights.sort()[0]
DefaultSortFirst(S) == CHOOSE x \in S : \A y \in S \ {x} : StringLess(x, y)
\* l_heights.sort((a, b) => a - b)
NumericSort(S) == Ascending(S)


(***************************************************************************)
(* State.                                                                  *)
(***************************************************************************)
VARIABLES
    \* the relational store: a record of tables
    \*   blocks                 set of block hashes
    \*   blockchain             set of rows <<height, hash>>
    \*   block_meta             set of block hashes
    \*   transactions           set of transaction hashes (block_hash = BlockOf)
    \*   transaction_meta       set of transaction hashes
    \*   transaction_inputs     set of transaction hashes
    \*   transaction_outputs    set of rows <<transaction hash, globalIdx or NULL>>
    \*   transaction_paymentids set of transaction hashes
    db,
    \* the upstream daemon: version of the block at each height, and how
    \* often it reorganised
    upChain, reorgs,
    \* Collector fields
    batch_size, syncPaused,
    \* the sync tick body: position and locals
    pc, minHeight, maxHeight, checkpoints, syncBlocks, blockHashes,
    transactionCount, indexes, headers, loop_i,
    \* BlockchainDB.rewind: its argument, its work list, and who called it
    rwHeight, stmts, rwCaller,
    \* bookkeeping of the verification
    fails, faulted, lastResult, pre, reduceCalls, overlap, reorgF, armed,
    \* info and pool tickers: their paused flags, the upstream's pool version,
    \* the pool tick bodies in flight, the number of bodies ever started, the
    \* transaction_pool table and the body that wrote it, whether an older
    \* body overwrote a younger one's snapshot, the info tick bodies in flight
    poolPaused, infoPaused, poolUp, poolBodies, poolStarted, transaction_pool,
    poolWriter, staleWrite, infoBodies,
    \* the Collector's configured default batch size
    m_default_block_batch_size,
    \* the caller of the store in the specifications that exercise one
    \* operation alone, the database as that caller found it, and the number
    \* of failed ticks and of successful ticks after them since construction
    op, snap, storm,
    \* the row of the information table (its networkHeight and synced
    \* fields), the last call of the read surface and what it returned
    information, query, answer,
    \* the Collector's lifecycle: its running and destroyed flags, the
    \* position of every init() call issued so far, the number of sync tick
    \* handlers registered on the sync timer, and whether the process exited
    m_running, m_destroyed, inits, handlers, exited,
    \* the offload topology: the raw-block messages of the request queue
    \* (payload, delivery state, number of deliveries), the message handler
    \* of every worker (position, message, result of saveRawBlock), and the
    \* replies, exceptions, acks and nacks issued so far
    mq, wk, wlog

dbVars == <<db>>
upVars == <<upChain, reorgs>>
tickVars == <<pc, minHeight, maxHeight, checkpoints, syncBlocks, blockHashes,
              transactionCount, indexes, headers, loop_i, rwHeight, stmts, rwCaller>>
colVars == <<batch_size, syncPaused>>
histVars == <<fails, faulted, lastResult, pre, reduceCalls, overlap, reorgF, armed>>
poolVars == <<poolPaused, infoPaused, poolUp, poolBodies, poolStarted, transaction_pool,
              poolWriter, staleWrite, infoBodies>>
restVars == <<information, query, answer, m_running, m_destroyed, inits, handlers, exited>>
runVars == <<m_default_block_batch_size, op, snap, storm, restVars, mq, wk, wlog>>
vars == <<db, upChain, reorgs, batch_size, syncPaused, pc, minHeight, maxHeight,
          checkpoints, syncBlocks, blockHashes, transactionCount, indexes, headers,
          loop_i, rwHeight, stmts, rwCaller, fails, faulted, lastResult, pre,
          reduceCalls, overlap, reorgF, armed, poolPaused, infoPaused, poolUp,
          poolBodies, poolStarted, transaction_pool, poolWriter, staleWrite, infoBodies,
          m_default_block_batch_size, op, snap, storm, information, query, answer,
          m_running, m_destroyed, inits, handlers, exited, mq, wk, wlog>>

(***************************************************************************)
(* The store.                                                              *)
(***************************************************************************)
EmptyDB ==
    [blocks |-> {}, blockchain |-> {}, block_meta |-> {}, transactions |-> {},
     transaction_meta |-> {}, transaction_inputs |-> {},
     transaction_outputs |-> {}, transaction_paymentids |-> {}]

Heights(d) == {r[1] : r \in d.blockchain}

\* SELECT hash FROM blockchain WHERE height = ?   (the set of answers)
HashesAtHeight(d, h) == {r[2] : r \in {x \in d.blockchain : x[1] = h}}
hashFromHeight(d, h) == CHOOSE x \in HashesAtHeight(d, h) : TRUE

\* SELECT height FROM blockchain WHERE hash = ?
HeightsOfHash(d, hash) == {r[1] : r \in {x \in d.blockchain : x[2] = hash}}
heightFromHash(d, hash) == CHOOSE h \in HeightsOfHash(d, hash) : TRUE

\* SELECT height FROM blockchain ORDER BY height DESC LIMIT 1
getTopBlockHeight(d) == SetMax(Heights(d))

haveGenesis(d) == HashesAtHeight(d, 0) # {}

\* the same query had it no rows to report
checkConsistencyOff(d) == {}

\* blocks LEFT JOIN block_meta WHERE block_meta.size IS NULL
checkConsistency(d) == d.blocks \ d.block_meta

\* the same query had it compared with height > ?
getBlockHashesStrictlyAbove(d, height) == {r[2] : r \in {x \in d.blockchain : x[1] > height}}

\* SELECT hash FROM blockchain WHERE height >= ?
getBlockHashesAboveHeight(d, height) == {r[2] : r \in {x \in d.blockchain : x[1] >= height}}

\* the same DELETE had the schema declared no cascade below transactions
DeleteBlockRowOnly(d, hash) ==
    [d EXCEPT !.blocks = d.blocks \ {hash},
              !.blockchain = {r \in d.blockchain : r[2] # hash},
              !.block_meta = d.block_meta \ {hash},
              !.transactions = {t \in d.transactions : BlockOf(t) # hash}]

\* DELETE FROM blocks WHERE hash = ?, with the ON DELETE CASCADE foreign keys
\* the schema declares: blockchain, block_meta and transactions follow blocks;
\* transaction_meta, _inputs, _outputs and _paymentids follow transactions
DeleteBlock(d, hash) ==
    LET gone == {t \in d.transactions : BlockOf(t) = hash} IN
    [blocks |-> d.blocks \ {hash},
     blockchain |-> {r \in d.blockchain : r[2] # hash},
     block_meta |-> d.block_meta \ {hash},
     transactions |-> d.transactions \ gone,
     transaction_meta |-> d.transaction_meta \ gone,
     transaction_inputs |-> d.transaction_inputs \ gone,
     transaction_outputs |-> {r \in d.transaction_outputs : r[1] \notin gone},
     transaction_paymentids |-> d.transaction_paymentids \ gone]

\* TRUNCATE blocks CASCADE (or DELETE FROM blocks)
reset(d) == EmptyDB

\* the rows saveRawBlocks builds from the loaded blocks
BatchTxns(bs) == Flatten([i \in DOMAIN bs |-> TxnsOf(bs[i])])

\* the insert transaction of saveRawBlocks commits unless a primary key is
\* taken: blocks.hash, blockchain.height, transactions.hash
InsertCommits(d, bs) ==
    /\ Range(bs) \cap d.blocks = {}
    /\ {Height(b) : b \in Range(bs)} \cap Heights(d) = {}
    /\ Range(BatchTxns(bs)) \cap d.transactions = {}
    /\ Range(BatchTxns(bs)) \cap {r[1] : r \in d.transaction_outputs} = {}

InsertRows(d, bs) ==
    LET B == Range(bs)
        T == Range(BatchTxns(bs)) IN
    [blocks |-> d.blocks \cup B,
     blockchain |-> d.blockchain \cup {<<Height(b), b>> : b \in B},
     block_meta |-> d.block_meta,
     transactions |-> d.transactions \cup T,
     transaction_meta |-> d.transaction_meta \cup T,
     transaction_inputs |-> d.transaction_inputs \cup {t \in T : HasKeyInput(t)},
     transaction_outputs |-> d.transaction_outputs \cup {<<t, NULL>> : t \in T},
     transaction_paymentids |-> d.transaction_paymentids \cup {t \in T : HasPaymentId(t)}]

\* UPDATE transaction_outputs SET globalIdx = ? WHERE hash = ? AND idx = ?
\* for every entry of the index list; rows that do not exist are not touched
UpdateGlobalIndexes(d, idx) ==
    [d EXCEPT !.transaction_outputs =
        {IF r[1] \in Range(idx) THEN <<r[1], GlobalIdxOf(r[1])>> ELSE r :
            r \in d.transaction_outputs}]

\* DELETE FROM block_meta WHERE hash = ? ; INSERT INTO block_meta, per header;
\* the foreign key to blocks makes the transaction fail for an unknown hash
MetaCommits(d, hs) == Range(hs) \subseteq d.blocks
InsertMeta(d, hs) == [d EXCEPT !.block_meta = (d.block_meta \ Range(hs)) \cup Range(hs)]

\* a mirrored chain of n blocks with headers and output indexes, as left by
\* the genesis bootstrap (n = 1) and by earlier runs
SyncedDB(n) ==
    LET B == {<<h, 0>> : h \in 0..(n - 1)}
        T == UNION {Range(TxnsOf(b)) : b \in B} IN
    [blocks |-> B,
     blockchain |-> {<<Height(b), b>> : b \in B},
     block_meta |-> B,
     transactions |-> T,
     transaction_meta |-> T,
     transaction_inputs |-> {t \in T : HasKeyInput(t)},
     transaction_outputs |-> {<<t, GlobalIdxOf(t)>> : t \in T},
     transaction_paymentids |-> {t \in T : HasPaymentId(t)}]

(***************************************************************************)
(* hashesForSync: the checkpoint list.                                     *)
(***************************************************************************)
\* heights bottom - 2, bottom - 2 - 4, ... while positive
\* the same loop had it stepped down by 2 every time
RECURSIVE HalvingHeightsFixed(_, _)
HalvingHeightsFixed(bottomHeight, n) ==
    LET next == bottomHeight - 2 IN
    IF next > 0 THEN <<next>> \o HalvingHeightsFixed(next, n + 1) ELSE <<>>

RECURSIVE HalvingHeights(_, _)
HalvingHeights(bottomHeight, n) ==
    LET next == bottomHeight - 2 ^ n IN
    IF next > 0 THEN <<next>> \o HalvingHeights(next, n + 1) ELSE <<>>

RECURSIVE InsertAll(_, _)
InsertAll(hashes, more) ==
    IF more = <<>> THEN hashes
    ELSE InsertAll(IF Head(more) \in Range(hashes) THEN hashes ELSE Append(hashes, Head(more)),
                   Tail(more))

hashesForSync(d) ==
    IF Heights(d) = {} THEN <<>>
    ELSE LET desc == Descending(Heights(d))
             top == SubSeq(desc, 1, IF Len(desc) < TopCheckpoints THEN Len(desc) ELSE TopCheckpoints)
             wanted == top \o HalvingHeights(top[Len(top)], 1) \o <<0>> IN
         IF \E i \in DOMAIN wanted : HashesAtHeight(d, wanted[i]) = {}
         THEN <<>>
         ELSE InsertAll(<<>>, [i \in DOMAIN wanted |-> hashFromHeight(d, wanted[i])])

(***************************************************************************)
(* The upstream daemon.                                                    *)
(***************************************************************************)
UpTop == Len(upChain) - 1
UpBlock(h) == <<h, upChain[h + 1]>>
OnUpstream(b) == Height(b) <= UpTop /\ UpBlock(Height(b)) = b

\* resume height: one above the highest checkpoint the daemon knows
getSyncHeight(cp) ==
    LET known == {Height(c) : c \in {x \in Range(cp) : OnUpstream(x)}} IN
    IF known = {} THEN 0 ELSE SetMax(known) + 1

UpRawSync(cp, count) ==
    LET start == getSyncHeight(cp)
        last == IF start + count - 1 < UpTop THEN start + count - 1 ELSE UpTop IN
    [i \in 1..(IF last >= start THEN last - start + 1 ELSE 0) |-> UpBlock(start + i - 1)]

\* indexes(startHeight, endHeight): one entry per transaction of the blocks
\* in the inclusive range
UpIndexes(startHeight, endHeight) ==
    LET last == IF endHeight < UpTop THEN endHeight ELSE UpTop IN
    Flatten([i \in 1..(IF last >= startHeight THEN last - startHeight + 1 ELSE 0) |->
                TxnsOf(UpBlock(startHeight + i - 1))])

\* an answer that misses its last entry
Short(s) == IF s = <<>> THEN s ELSE SubSeq(s, 1, Len(s) - 1)


\* the header of the block at height j, for the heights the daemon has
UpHeaders(js) == [i \in DOMAIN js |-> UpBlock(js[i])]

(***************************************************************************)
(* Collector helpers.                                                      *)
(***************************************************************************)
\* the same method had it no clamp to the default
increase_unclamped(b) ==
    IF b = BatchNoopAt THEN b ELSE (5 * b + 3) \div 4

increase_block_batch_size(b) ==
    IF b = BatchNoopAt THEN b
    ELSE LET n == (5 * b + 3) \div 4 IN        \* Math.ceil(b * 1.25)
         IF n > m_default_block_batch_size THEN m_default_block_batch_size ELSE n

\* the same method had it rounded down
reduce_rounded_down(b) ==
    IF b = MinBatch THEN b
    ELSE LET n == b \div 2 IN IF n < MinBatch THEN MinBatch ELSE n

reduce_block_batch_size(b) ==
    IF b = MinBatch THEN b
    ELSE LET n == (b + 1) \div 2 IN            \* Math.ceil(b / 2)
         IF n < MinBatch THEN MinBatch ELSE n

\* an array, empty or not, is truthy
IsTruthy(array) == TRUE

\* while (!results && attempt <= 4) { results = await rpc.blockHeaders(h) }
\* with results initialised to []
BulkRequested == ~IsTruthy(<<>>) /\ 0 <= BulkAttempts

BulkHeaders(headerHeight) ==
    IF BulkRequested
    THEN UpHeaders([i \in 1..(IF headerHeight + 1 < HeaderStep THEN headerHeight + 1 ELSE HeaderStep)
                        |-> headerHeight - i + 1])
    ELSE <<>>

\* for (j = headerHeight; j >= headerHeight - 30; j--)
FallbackHeights(headerHeight) == [i \in 1..(HeaderStep + 1) |-> headerHeight - i + 1]

\* headers.push(header) for the known hashes not yet collected
CollectHeaders(acc, results, knownBlockHashes) ==
    LET pushed == {i \in DOMAIN results :
                      /\ results[i] \in Range(knownBlockHashes)
                      /\ results[i] \notin Range(acc)
                      /\ \A j \in 1..(i - 1) : results[j] # results[i]}
        order == Ascending(pushed) IN
    acc \o [k \in DOMAIN order |-> results[order[k]]]

\* the orders in which SELECT hash FROM blockchain WHERE height >= ? may
\* list its rows
QueryOrders(d, height) ==
    LET hs == {heightFromHash(d, x) : x \in getBlockHashesAboveHeight(d, height)} IN
    { [i \in DOMAIN Ascending(hs) |-> hashFromHeight(d, Ascending(hs)[i])],
      [i \in DOMAIN Descending(hs) |-> hashFromHeight(d, Descending(hs)[i])] }

(***************************************************************************)
(* Initial state: init() has returned on a database that mirrors the       *)
(* first n blocks of the upstream chain; the tickers are registered.       *)
(***************************************************************************)
TickIdle ==
    /\ pc = "idle" /\ minHeight = 0 /\ maxHeight = 0 /\ checkpoints = <<>>
    /\ syncBlocks = <<>> /\ blockHashes = <<>> /\ transactionCount = 0
    /\ indexes = <<>> /\ headers = <<>> /\ loop_i = 0
    /\ rwHeight = 0 /\ stmts = <<>> /\ rwCaller = "none"

HistInit ==
    /\ fails = 0 /\ faulted = FALSE /\ lastResult = "none" /\ pre = {}
    /\ reduceCalls = 0 /\ overlap = FALSE /\ reorgF = -1 /\ armed = "no"

\* the Collector runs: no caller exercises the store on its own
\* no call of the read surface yet; one init() has returned and registered
\* its handlers; stop() was not called
Settled ==
    /\ information = <<0, FALSE>> /\ query = <<0, "none">> /\ answer = <<>>
    /\ m_running = TRUE /\ m_destroyed = FALSE
    /\ inits = << <<"await", "have", "registered">> >>
    /\ handlers = 1 /\ exited = FALSE

RunIdle ==
    /\ op = "collector" /\ snap = EmptyDB /\ storm = <<0, 0>>
    /\ Settled

PoolIdle ==
    /\ poolPaused = FALSE /\ infoPaused = FALSE
    /\ poolUp = 0 /\ poolBodies = <<>> /\ poolStarted = 0 /\ transaction_pool = {}
    /\ poolWriter = 0 /\ staleWrite = FALSE /\ infoBodies = 0

Init ==
    /\ \E n \in InitLens, a \in 0..MaxAhead :
          /\ db = SyncedDB(n)
          /\ upChain = [i \in 1..(n + a) |-> 0]
    /\ reorgs = 0
    /\ mq = <<>> /\ wk = <<>> /\ wlog = <<>>
    /\ m_default_block_batch_size = DefaultBatch
    /\ batch_size = m_default_block_batch_size
    /\ RunIdle
    /\ syncPaused = FALSE
    /\ TickIdle
    /\ HistInit
    /\ PoolIdle

(***************************************************************************)
(* The upstream chain grows and reorganises on its own.                    *)
(***************************************************************************)
UpCaps == {n + MaxAhead : n \in InitLens}

UpstreamGrow ==
    /\ Len(upChain) \notin UpCaps
    /\ upChain' = Append(upChain, reorgs)
    /\ UNCHANGED <<db, reorgs, colVars, tickVars, histVars, poolVars, runVars>>

\* the blocks at heights >= f are replaced by new ones
UpstreamReorg ==
    /\ reorgs < MaxReorgs
    /\ \E f \in 1..UpTop :
          /\ f > UpTop - ReorgDepth
          /\ upChain' = [i \in DOMAIN upChain |-> IF i - 1 >= f THEN reorgs + 1 ELSE upChain[i]]
          /\ IF pc = "idle" /\ Heights(db) # {} /\ f <= getTopBlockHeight(db)
                /\ f - 1 >= getTopBlockHeight(db) - (TopCheckpoints - 1)
             THEN reorgF' = f /\ armed' = "armed"
             ELSE UNCHANGED <<reorgF, armed>>
    /\ reorgs' = reorgs + 1
    /\ UNCHANGED <<db, colVars, tickVars, poolVars, runVars,
                   fails, faulted, lastResult, pre, reduceCalls, overlap>>

(***************************************************************************)
(* The sync tick (syncTimer.on('tick', ...)).                              *)
(***************************************************************************)
\* the number of calls that may fail: where the index fetch is exercised
\* alone, the full-range call and a chunk can both go wrong
FailBudget == IF op = "indexes" THEN MaxIndexFails ELSE MaxFails
\* a call fails.  After stop() the database is closed: every call on it
\* fails (its steps require ~m_destroyed to succeed), and those failures
\* are not counted against the budget
Fault ==
    /\ m_destroyed \/ fails < FailBudget
    /\ fails' = IF m_destroyed THEN fails ELSE fails + 1
    /\ faulted' = TRUE
NoFault == UNCHANGED <<fails, faulted>>

\* the handler returns (or rejects): finally { paused = false }.  The
\* hashes saved by the tick stay readable until the next tick starts.
EndTick(result) ==
    /\ syncPaused' = FALSE
    /\ pc' = "idle"
    /\ lastResult' = result
    /\ armed' = IF armed = "running" THEN "checked" ELSE armed
    /\ checkpoints' = <<>> /\ syncBlocks' = <<>> /\ UNCHANGED blockHashes
    /\ transactionCount' = 0 /\ indexes' = <<>> /\ headers' = <<>> /\ loop_i' = 0
    /\ rwHeight' = 0 /\ stmts' = <<>> /\ rwCaller' = "none"

\* this.syncTimer.paused = true, the first statement of the handler
PausedOnEntryOff == FALSE
PausedOnEntry == TRUE

\* the metronome emits a tick whenever it is not paused, to the handlers
\* registered on it, until it is destroyed or the process has exited
SyncTickStart ==
    /\ handlers > 0 /\ ~m_destroyed /\ ~exited
    /\ ~syncPaused
    /\ IF pc = "idle"
       THEN /\ syncPaused' = PausedOnEntry
            /\ minHeight' = 0 /\ maxHeight' = 0
            /\ blockHashes' = <<>>
            /\ pc' = "cc"
            /\ faulted' = FALSE /\ lastResult' = "none" /\ reduceCalls' = 0
            /\ pre' = db.blocks \cap db.block_meta
            /\ armed' = IF armed = "armed" THEN "running" ELSE "no"
            \* every registered handler starts a body of its own
            /\ overlap' = (overlap \/ handlers > 1)
            /\ UNCHANGED <<fails, reorgF>>
       ELSE /\ overlap' = TRUE
            /\ UNCHANGED <<syncPaused, minHeight, maxHeight, blockHashes, pc, faulted,
                           lastResult, reduceCalls, pre, armed, fails, reorgF>>
    /\ UNCHANGED <<db, upVars, batch_size, checkpoints, syncBlocks,
                   transactionCount, indexes, headers, loop_i, rwHeight, stmts,
                   rwCaller, poolVars, runVars>>

\* checkConsistency closure: query, lowest height, rewind, query again
CheckConsistency ==
    /\ pc = "cc"
    /\ \/ /\ Fault
          /\ pc' = "catch"
          /\ UNCHANGED <<rwHeight, rwCaller>>
       \/ /\ ~m_destroyed /\ NoFault
          /\ LET inconsistentRows == checkConsistency(db) IN
             IF inconsistentRows = {}
             THEN pc' = "hashes" /\ UNCHANGED <<rwHeight, rwCaller>>
             ELSE IF \E h \in inconsistentRows : HeightsOfHash(db, h) = {}
             THEN pc' = "catch" /\ UNCHANGED <<rwHeight, rwCaller>>
             ELSE /\ rwHeight' = SetMin({heightFromHash(db, h) : h \in inconsistentRows})
                  /\ rwCaller' = "cc"
                  /\ pc' = "rw_prepare"
    /\ UNCHANGED <<db, upVars, colVars, minHeight, maxHeight, checkpoints, syncBlocks,
                   blockHashes, transactionCount, indexes, headers, loop_i, stmts,
                   lastResult, pre, reduceCalls, overlap, reorgF, armed, poolVars, runVars>>

\* rewind: prepareRewind's query; a failing query raises in the caller, and
\* from the catch block it leaves the handler
RewindPrepare ==
    /\ pc = "rw_prepare"
    /\ \/ /\ Fault
          /\ IF rwCaller = "catch"
             THEN EndTick("rejected")
             ELSE /\ pc' = "catch"
                  /\ UNCHANGED <<syncPaused, lastResult, armed, checkpoints, syncBlocks,
                                 blockHashes, transactionCount, indexes, headers, loop_i,
                                 rwHeight, stmts, rwCaller>>
       \/ /\ ~m_destroyed /\ NoFault
          /\ \E order \in QueryOrders(db, rwHeight) : stmts' = order
          /\ pc' = "rw_loop"
          /\ UNCHANGED <<syncPaused, lastResult, armed, checkpoints, syncBlocks,
                         blockHashes, transactionCount, indexes, headers, loop_i,
                         rwHeight, rwCaller>>
    /\ UNCHANGED <<db, upVars, batch_size, minHeight, maxHeight,
                   pre, reduceCalls, overlap, reorgF, poolVars, runVars>>

\* rewind: _stmts = stmts.slice(0, 1); stmts = stmts.slice(1)
SliceTwo(list) == IF Len(list) >= 2 THEN Tail(Tail(list)) ELSE <<>>
SliceRest(list) == Tail(list)

\* rewind: catch { for (const stmt of _stmts) stmts.push(stmt) }, and the
\* same handler had it dropped the failed statement
Dropped(list, _stmts) == list
Requeue(list, _stmts) == list \o _stmts

\* rewind: one DELETE transaction; a failed one goes to the end of the list
RewindDelete ==
    /\ pc = "rw_loop"
    /\ stmts # <<>>
    /\ \/ /\ ~m_destroyed /\ NoFault
          /\ db' = DeleteBlock(db, Head(stmts))
          /\ stmts' = SliceRest(stmts)
       \/ /\ Fault
          /\ stmts' = Requeue(SliceRest(stmts), <<Head(stmts)>>)
          /\ UNCHANGED db
    /\ UNCHANGED <<upVars, colVars, pc, minHeight, maxHeight, checkpoints, syncBlocks,
                   blockHashes, transactionCount, indexes, headers, loop_i, rwHeight,
                   rwCaller, lastResult, pre, reduceCalls, overlap, reorgF, armed, poolVars, runVars>>

RewindReturn ==
    /\ pc = "rw_loop"
    /\ stmts = <<>>
    /\ pc' = CASE rwCaller = "cc" -> "cc"
               [] rwCaller = "save" -> "insert"
               [] rwCaller = "catch" -> "reduce"
               [] rwCaller = "tool" -> "idle"
    /\ UNCHANGED <<db, upVars, colVars, minHeight, maxHeight, checkpoints, syncBlocks,
                   blockHashes, transactionCount, indexes, headers, loop_i, rwHeight,
                   stmts, rwCaller, histVars, poolVars, runVars>>

\* hashesForSync swallows every error and answers []
HashesForSync ==
    /\ pc = "hashes"
    /\ \/ ~m_destroyed /\ NoFault /\ checkpoints' = hashesForSync(db)
       \/ Fault /\ checkpoints' = <<>>
    /\ pc' = "lastKnown"
    /\ UNCHANGED <<db, upVars, colVars, minHeight, maxHeight, syncBlocks, blockHashes,
                   transactionCount, indexes, headers, loop_i, rwHeight, stmts, rwCaller,
                   lastResult, pre, reduceCalls, overlap, reorgF, armed, poolVars, runVars>>

\* lastKnownBlock = getBlock(checkpoints[0]); minHeight = lastKnownBlock.height
GetLastKnownBlock ==
    /\ pc = "lastKnown"
    /\ \/ Fault /\ pc' = "catch" /\ UNCHANGED minHeight
       \/ /\ ~m_destroyed /\ NoFault
          /\ IF checkpoints = <<>> \/ Head(checkpoints) \notin db.blocks
             THEN pc' = "catch" /\ UNCHANGED minHeight
             ELSE pc' = "rawSync" /\ minHeight' = Height(Head(checkpoints))
    /\ UNCHANGED <<db, upVars, colVars, maxHeight, checkpoints, syncBlocks, blockHashes,
                   transactionCount, indexes, headers, loop_i, rwHeight, stmts, rwCaller,
                   lastResult, pre, reduceCalls, overlap, reorgF, armed, poolVars, runVars>>

RawSync ==
    /\ pc = "rawSync"
    /\ \/ Fault /\ pc' = "catch" /\ UNCHANGED syncBlocks
       \/ NoFault /\ syncBlocks' = UpRawSync(checkpoints, batch_size) /\ pc' = "save"
    /\ UNCHANGED <<db, upVars, colVars, minHeight, maxHeight, checkpoints, blockHashes,
                   transactionCount, indexes, headers, loop_i, rwHeight, stmts, rwCaller,
                   lastResult, pre, reduceCalls, overlap, reorgF, armed, poolVars, runVars>>


\* the third value saveRawBlocks returns: the number of transactions it saved
SavedTransactionCount(bs) == Len(BatchTxns(bs))

BatchHeights(bs) == {Height(b) : b \in Range(bs)}

\* saveRawBlocks up to its rewind: nothing to do for an empty batch, else
\* rewind to l_heights.sort()[0]
SaveRawBlocks ==
    /\ pc = "save"
    /\ IF syncBlocks = <<>>
       THEN /\ blockHashes' = <<>>
            /\ transactionCount' = SavedTransactionCount(<<>>)
            /\ minHeight' = 0 /\ maxHeight' = 0
            /\ pc' = "idx_first"
            /\ UNCHANGED <<rwHeight, rwCaller>>
       ELSE /\ rwHeight' = DefaultSortFirst(BatchHeights(syncBlocks))
            /\ rwCaller' = "save"
            /\ pc' = "rw_prepare"
            /\ UNCHANGED <<blockHashes, transactionCount, minHeight, maxHeight>>
    /\ UNCHANGED <<db, upVars, colVars, checkpoints, syncBlocks, indexes, headers,
                   loop_i, stmts, histVars, poolVars, runVars>>

\* saveRawBlocks after its rewind: the insert transaction, then the caller
\* takes minHeight / maxHeight from the numerically sorted heights
InsertRawBlocks ==
    /\ pc = "insert"
    /\ \/ /\ Fault
          /\ pc' = "catch"
          /\ UNCHANGED <<db, blockHashes, transactionCount, minHeight, maxHeight>>
       \/ /\ ~m_destroyed /\ NoFault
          /\ IF InsertCommits(db, syncBlocks)
             THEN /\ db' = InsertRows(db, syncBlocks)
                  /\ blockHashes' = syncBlocks
                  /\ transactionCount' = SavedTransactionCount(syncBlocks)
                  /\ LET blockHeights == NumericSort(BatchHeights(syncBlocks)) IN
                       /\ minHeight' = blockHeights[1]
                       /\ maxHeight' = blockHeights[Len(blockHeights)]
                  /\ pc' = "idx_first"
             ELSE /\ pc' = "catch"
                  /\ UNCHANGED <<db, blockHashes, transactionCount, minHeight, maxHeight>>
    /\ UNCHANGED <<upVars, colVars, checkpoints, syncBlocks, indexes, headers, loop_i,
                   rwHeight, stmts, rwCaller, lastResult, pre, reduceCalls, overlap,
                   reorgF, armed, poolVars, runVars>>

\* the same test had it accepted any answer
IndexesAcceptedAny(results, txnCount) == TRUE

\* fetch_global_indexes, first attempt: one call for the whole range, used
\* when its length is the expected count
IndexesAccepted(results, txnCount) == Len(results) = txnCount

FetchIndexesFull ==
    /\ pc = "idx_first"
    /\ \/ /\ NoFault
          /\ LET results == UpIndexes(minHeight, maxHeight) IN
             IF IndexesAccepted(results, transactionCount)
             THEN indexes' = results /\ pc' = "saveIdx" /\ UNCHANGED loop_i
             ELSE indexes' = <<>> /\ pc' = "idx_chunk" /\ loop_i' = minHeight
       \/ /\ Fault                                   \* the call is rejected
          /\ indexes' = <<>> /\ pc' = "idx_chunk" /\ loop_i' = minHeight
       \/ /\ Fault                                   \* an entry is missing
          /\ UpIndexes(minHeight, maxHeight) # <<>>
          /\ LET results == Short(UpIndexes(minHeight, maxHeight)) IN
             IF IndexesAccepted(results, transactionCount)
             THEN indexes' = results /\ pc' = "saveIdx" /\ UNCHANGED loop_i
             ELSE indexes' = <<>> /\ pc' = "idx_chunk" /\ loop_i' = minHeight
    /\ UNCHANGED <<db, upVars, colVars, minHeight, maxHeight, checkpoints, syncBlocks,
                   blockHashes, transactionCount, headers, rwHeight, stmts, rwCaller,
                   lastResult, pre, reduceCalls, overlap, reorgF, armed, poolVars, runVars>>

\* the same loop had it advanced by 10
FetchIndexesChunkBy10 ==
    /\ pc = "idx_chunk"
    /\ loop_i <= maxHeight
    /\ LET end == IF loop_i + IndexChunk > maxHeight THEN maxHeight ELSE loop_i + IndexChunk IN
       \/ /\ NoFault
          /\ indexes' = indexes \o UpIndexes(loop_i, end)
          /\ loop_i' = loop_i + IndexChunk
       \/ /\ Fault
          /\ UpIndexes(loop_i, end) # <<>>
          /\ indexes' = indexes \o Short(UpIndexes(loop_i, end))
          /\ loop_i' = loop_i + IndexChunk
       \/ /\ Fault
          /\ UNCHANGED <<indexes, loop_i>>
    /\ UNCHANGED <<db, upVars, colVars, pc, minHeight, maxHeight, checkpoints, syncBlocks,
                   blockHashes, transactionCount, headers, rwHeight, stmts, rwCaller,
                   lastResult, pre, reduceCalls, overlap, reorgF, armed, poolVars, runVars>>

\* fetch_global_indexes, one chunk [i, min(i + 10, endHeight)]; a rejected
\* call is repeated
FetchIndexesChunk ==
    /\ pc = "idx_chunk"
    /\ loop_i <= maxHeight
    /\ LET end == IF loop_i + IndexChunk > maxHeight THEN maxHeight ELSE loop_i + IndexChunk IN
       \/ /\ NoFault
          /\ indexes' = indexes \o UpIndexes(loop_i, end)
          /\ loop_i' = loop_i + IndexChunk + 1
       \/ /\ Fault
          /\ UpIndexes(loop_i, end) # <<>>
          /\ indexes' = indexes \o Short(UpIndexes(loop_i, end))
          /\ loop_i' = loop_i + IndexChunk + 1
       \/ /\ Fault
          /\ UNCHANGED <<indexes, loop_i>>
    /\ UNCHANGED <<db, upVars, colVars, pc, minHeight, maxHeight, checkpoints, syncBlocks,
                   blockHashes, transactionCount, headers, rwHeight, stmts, rwCaller,
                   lastResult, pre, reduceCalls, overlap, reorgF, armed, poolVars, runVars>>

\* fetch_global_indexes after the chunks: throw on a wrong total
FetchIndexesCheck ==
    /\ pc = "idx_chunk"
    /\ loop_i > maxHeight
    /\ pc' = IF IndexesAccepted(indexes, transactionCount) THEN "saveIdx" ELSE "catch"
    /\ UNCHANGED <<db, upVars, colVars, minHeight, maxHeight, checkpoints, syncBlocks,
                   blockHashes, transactionCount, indexes, headers, loop_i, rwHeight,
                   stmts, rwCaller, histVars, poolVars, runVars>>

SaveOutputGlobalIndexes ==
    /\ pc = "saveIdx"
    /\ \/ /\ indexes # <<>>
          /\ Fault
          /\ pc' = "catch"
          /\ UNCHANGED <<db, loop_i, headers>>
       \/ /\ ~m_destroyed /\ NoFault
          /\ db' = IF indexes = <<>> THEN db ELSE UpdateGlobalIndexes(db, indexes)
          /\ pc' = "headers"
          /\ loop_i' = maxHeight                       \* i = endHeight
          /\ headers' = <<>>
    /\ UNCHANGED <<upVars, colVars, minHeight, maxHeight, checkpoints, syncBlocks,
                   blockHashes, transactionCount, indexes, rwHeight, stmts, rwCaller,
                   lastResult, pre, reduceCalls, overlap, reorgF, armed, poolVars, runVars>>

\* fetch_block_headers: the loop condition  i > startHeight
HeaderLoopRuns(i, startHeight) == i > startHeight

\* the daemon answers block(j) for the heights it has and rejects the others
Answerable(js) == \A i \in DOMAIN js : js[i] >= 0 /\ js[i] <= UpTop

\* fetch_block_headers, one step of the walk: bulk call, else single fetches
FetchBlockHeaders ==
    /\ pc = "headers"
    /\ HeaderLoopRuns(loop_i, minHeight)
    /\ LET headerHeight == IF loop_i < minHeight THEN maxHeight ELSE loop_i
           bulk == BulkHeaders(headerHeight) IN
       /\ Len(bulk) = 0 => Answerable(FallbackHeights(headerHeight))
       /\ LET results == IF Len(bulk) = 0
                         THEN UpHeaders(FallbackHeights(headerHeight))
                         ELSE bulk IN
          headers' = CollectHeaders(headers, results, blockHashes)
    /\ loop_i' = loop_i - HeaderStep
    /\ UNCHANGED <<db, upVars, colVars, pc, minHeight, maxHeight, checkpoints, syncBlocks,
                   blockHashes, transactionCount, indexes, rwHeight, stmts, rwCaller,
                   histVars, poolVars, runVars>>

\* ... a single fetch the daemon never answers is repeated for ever
HeaderRetryForever ==
    /\ pc = "headers"
    /\ HeaderLoopRuns(loop_i, minHeight)
    /\ LET headerHeight == IF loop_i < minHeight THEN maxHeight ELSE loop_i IN
       /\ Len(BulkHeaders(headerHeight)) = 0
       /\ ~Answerable(FallbackHeights(headerHeight))
    /\ pc' = "hdr_retry"
    /\ UNCHANGED <<db, upVars, colVars, minHeight, maxHeight, checkpoints, syncBlocks,
                   blockHashes, transactionCount, indexes, headers, loop_i, rwHeight,
                   stmts, rwCaller, histVars, poolVars, runVars>>

FetchBlockHeadersDone ==
    /\ pc = "headers"
    /\ ~HeaderLoopRuns(loop_i, minHeight)
    /\ pc' = "saveMeta"
    /\ UNCHANGED <<db, upVars, colVars, minHeight, maxHeight, checkpoints, syncBlocks,
                   blockHashes, transactionCount, indexes, headers, loop_i, rwHeight,
                   stmts, rwCaller, histVars, poolVars, runVars>>

\* saveBlocksMeta, then increase_block_batch_size and the end of the try
SaveBlocksMeta ==
    /\ pc = "saveMeta"
    /\ \/ /\ headers # <<>>
          /\ Fault
          /\ pc' = "catch"
          /\ UNCHANGED <<db, batch_size, syncPaused, lastResult, armed, checkpoints,
                         syncBlocks, blockHashes, transactionCount, indexes, headers,
                         loop_i, rwHeight, stmts, rwCaller>>
       \/ /\ ~m_destroyed /\ NoFault
          /\ IF headers = <<>> \/ MetaCommits(db, headers)
             THEN /\ db' = IF headers = <<>> THEN db ELSE InsertMeta(db, headers)
                  /\ batch_size' = increase_block_batch_size(batch_size)
                  /\ EndTick("ok")
             ELSE /\ pc' = "catch"
                  /\ UNCHANGED <<db, batch_size, syncPaused, lastResult, armed, checkpoints,
                                 syncBlocks, blockHashes, transactionCount, indexes, headers,
                                 loop_i, rwHeight, stmts, rwCaller>>
    /\ UNCHANGED <<upVars, minHeight, maxHeight, pre, reduceCalls, overlap, reorgF, poolVars, runVars>>

\* catch (e) { await this.database.rewind(minHeight); ...
CatchRewind ==
    /\ pc = "catch"
    /\ rwHeight' = minHeight
    /\ rwCaller' = "catch"
    /\ pc' = "rw_prepare"
    /\ UNCHANGED <<db, upVars, colVars, minHeight, maxHeight, checkpoints, syncBlocks,
                   blockHashes, transactionCount, indexes, headers, loop_i, stmts,
                   histVars, poolVars, runVars>>

\* ... this.reduce_block_batch_size(); } finally { paused = false }
CatchReduce ==
    /\ pc = "reduce"
    /\ batch_size' = reduce_block_batch_size(batch_size)
    /\ reduceCalls' = reduceCalls + 1
    /\ EndTick("failed")
    /\ UNCHANGED <<db, upVars, minHeight, maxHeight, fails, faulted, pre, overlap,
                   reorgF, poolVars, runVars>>

\* the reset command line tool
ResetDatabase ==
    /\ pc = "idle"
    /\ db # EmptyDB
    /\ db' = reset(db)
    /\ lastResult' = "none"
    /\ armed' = "no"
    /\ transaction_pool' = {}
    /\ UNCHANGED <<upVars, colVars, tickVars, fails, faulted, pre, reduceCalls, overlap,
                   reorgF, poolPaused, infoPaused, poolUp, poolBodies, poolStarted,
                   poolWriter, staleWrite, infoBodies, runVars>>

Next ==
    \/ UpstreamGrow \/ UpstreamReorg \/ ResetDatabase
    \/ SyncTickStart \/ CheckConsistency \/ RewindPrepare \/ RewindDelete
    \/ RewindReturn \/ HashesForSync \/ GetLastKnownBlock \/ RawSync
    \/ SaveRawBlocks \/ InsertRawBlocks \/ FetchIndexesFull \/ FetchIndexesChunk
    \/ FetchIndexesCheck \/ SaveOutputGlobalIndexes \/ FetchBlockHeaders
    \/ HeaderRetryForever \/ FetchBlockHeadersDone \/ SaveBlocksMeta
    \/ CatchRewind \/ CatchReduce

Spec == Init /\ [][Next]_vars


(***************************************************************************)
(* The info and pool tickers.  Their handlers never touch the paused flag  *)
(* of their metronome, so a tick is emitted every period whether or not    *)
(* the previous body has returned.                                         *)
(***************************************************************************)
\* the raw transaction pool the daemon reports at version v
PoolSnapshot(v) == v..(v + 2)

RemoveAt(seq, i) == SubSeq(seq, 1, i - 1) \o SubSeq(seq, i + 1, Len(seq))

sync == <<db, upVars, colVars, tickVars, histVars, runVars>>

PoolUpstreamChange ==
    /\ poolUp < MaxPoolVer
    /\ poolUp' = poolUp + 1
    /\ UNCHANGED <<sync, poolPaused, infoPaused, poolBodies, poolStarted, transaction_pool,
                   poolWriter, staleWrite, infoBodies>>

\* transactionPoolTimer emits 'tick': the handler starts
PoolTickStart ==
    /\ handlers > 0 /\ ~m_destroyed /\ ~exited
    /\ ~poolPaused
    /\ Len(poolBodies) < MaxBodies
    /\ poolStarted < MaxPoolTicks
    /\ poolStarted' = poolStarted + 1
    /\ poolBodies' = Append(poolBodies, [id |-> poolStarted + 1, at |-> "fetch", txns |-> {}])
    /\ UNCHANGED <<sync, poolPaused, infoPaused, poolUp, transaction_pool, poolWriter,
                   staleWrite, infoBodies>>

\* transactions = await this.rpc.rawTransactionPool(), or the catch
PoolFetch ==
    \E i \in DOMAIN poolBodies :
       /\ poolBodies[i].at = "fetch"
       /\ \/ poolBodies' = [poolBodies EXCEPT ![i].at = "save", ![i].txns = PoolSnapshot(poolUp)]
          \/ poolBodies' = RemoveAt(poolBodies, i)
       /\ UNCHANGED <<sync, poolPaused, infoPaused, poolUp, poolStarted, transaction_pool,
                      poolWriter, staleWrite, infoBodies>>

\* saveTransactionPool: DELETE FROM transaction_pool and the INSERTs, in one
\* transaction; a failed transaction leaves the table as it was
saveTransactionPoolKeep(table, txns) == table \cup txns
saveTransactionPool(table, txns) == txns

PoolSave ==
    \E i \in DOMAIN poolBodies :
       /\ poolBodies[i].at = "save"
       /\ \/ /\ transaction_pool' = saveTransactionPool(transaction_pool, poolBodies[i].txns)
             /\ poolWriter' = poolBodies[i].id
             /\ staleWrite' = (staleWrite \/ poolBodies[i].id < poolWriter)
          \/ UNCHANGED <<transaction_pool, poolWriter, staleWrite>>
       /\ poolBodies' = RemoveAt(poolBodies, i)
       /\ UNCHANGED <<sync, poolPaused, infoPaused, poolUp, poolStarted, infoBodies>>

\* informationTimer emits 'tick': the info and the peers handler start
InfoTickStart ==
    /\ handlers > 0 /\ ~m_destroyed /\ ~exited
    /\ ~infoPaused
    /\ infoBodies < MaxBodies
    /\ infoBodies' = infoBodies + 1
    /\ UNCHANGED <<sync, poolPaused, infoPaused, poolUp, poolBodies, poolStarted,
                   transaction_pool, poolWriter, staleWrite>>

\* both handlers of a tick have returned
InfoTickEnd ==
    /\ infoBodies > 0
    /\ infoBodies' = infoBodies - 1
    /\ UNCHANGED <<sync, poolPaused, infoPaused, poolUp, poolBodies, poolStarted,
                   transaction_pool, poolWriter, staleWrite>>

InitTickers ==
    /\ db = SyncedDB(1)
    /\ upChain = <<0>>
    /\ reorgs = 0
    /\ mq = <<>> /\ wk = <<>> /\ wlog = <<>>
    /\ m_default_block_batch_size = DefaultBatch
    /\ batch_size = m_default_block_batch_size
    /\ RunIdle
    /\ syncPaused = FALSE
    /\ TickIdle
    /\ HistInit
    /\ PoolIdle

NextTickers ==
    \/ PoolUpstreamChange \/ PoolTickStart \/ PoolFetch \/ PoolSave
    \/ InfoTickStart \/ InfoTickEnd

SpecTickers == InitTickers /\ [][NextTickers]_vars

(***************************************************************************)
(* The store on its own: one caller runs the consistency recovery, the     *)
(* rewind tool, or saveRawBlocks twice on the same batch, on a database    *)
(* that mirrors n blocks and holds k more whose headers never arrived.     *)
(***************************************************************************)
StoreLens == {1, 9, 10}
MaxBare == 1
StoreChain == 12
MaxBatch == 2

StoreDB(n, k) == InsertRows(SyncedDB(n), [i \in 1..k |-> <<n + i - 1, 0>>])
StorePool == PoolSnapshot(0)

\* the batches rawSync can hand over: consecutive blocks that start no
\* higher than one above the top of the database
StoreBatches(d) ==
    {[i \in 1..len |-> <<s + i - 1, 0>>] :
        s \in 0..(getTopBlockHeight(d) + 1), len \in 0..MaxBatch}

InitStore ==
    /\ \E n \in StoreLens, k \in 0..MaxBare : db = StoreDB(n, k)
    /\ upChain = [i \in 1..StoreChain |-> 0]
    /\ reorgs = 0
    /\ mq = <<>> /\ wk = <<>> /\ wlog = <<>>
    /\ m_default_block_batch_size = DefaultBatch
    /\ batch_size = m_default_block_batch_size
    /\ syncPaused = FALSE
    /\ minHeight = 0 /\ maxHeight = 0 /\ checkpoints = <<>>
    /\ blockHashes = <<>> /\ transactionCount = 0
    /\ indexes = <<>> /\ headers = <<>> /\ loop_i = 0 /\ stmts = <<>>
    /\ \/ op = "recover" /\ pc = "cc" /\ rwHeight = 0 /\ rwCaller = "none"
          /\ syncBlocks = <<>>
       \/ op = "rewind" /\ pc = "rw_prepare" /\ rwHeight \in 0..StoreChain
          /\ rwCaller = "tool" /\ syncBlocks = <<>>
       \/ op = "save" /\ pc = "save" /\ rwHeight = 0 /\ rwCaller = "none"
          /\ syncBlocks \in StoreBatches(db)
    /\ snap = db
    /\ storm = <<0, 0>>
    /\ Settled
    /\ HistInit
    /\ poolPaused = FALSE /\ infoPaused = FALSE
    /\ poolUp = 0 /\ poolBodies = <<>> /\ poolStarted = 0
    /\ transaction_pool = StorePool
    /\ poolWriter = 0 /\ staleWrite = FALSE /\ infoBodies = 0

\* the caller hands the batch it has just saved to saveRawBlocks again
SaveAgain ==
    /\ op = "save"
    /\ pc = "idx_first"
    /\ op' = "again"
    /\ snap' = db
    /\ pc' = "save"
    /\ UNCHANGED <<db, upVars, colVars, minHeight, maxHeight, checkpoints, syncBlocks,
                   blockHashes, transactionCount, indexes, headers, loop_i, rwHeight,
                   stmts, rwCaller, histVars, poolVars, m_default_block_batch_size, mq, wk, wlog, storm,
                   restVars>>

NextStore ==
    \/ CheckConsistency \/ RewindPrepare \/ RewindDelete \/ RewindReturn
    \/ SaveRawBlocks \/ InsertRawBlocks \/ SaveAgain

\* each call runs to its end: nothing else competes for the connection
SpecStore == InitStore /\ [][NextStore]_vars /\ WF_vars(NextStore)

(***************************************************************************)
(* The batch size on its own: a Collector built with any default, and      *)
(* ticks that end in increase_block_batch_size or in                       *)
(* reduce_block_batch_size.  storm counts the failed ticks since           *)
(* construction and the successful ticks after them, and is <<>> once a    *)
(* tick failed after a successful one or a count passed its bound.         *)
(***************************************************************************)
MaxDefault == 102
MaxStormFails == 5
MaxStormOks == 14

InitBatch ==
    /\ mq = <<>> /\ wk = <<>> /\ wlog = <<>>
    /\ m_default_block_batch_size \in 1..MaxDefault
    /\ batch_size = m_default_block_batch_size
    /\ op = "batch" /\ snap = EmptyDB /\ storm = <<0, 0>>
    /\ Settled
    /\ db = SyncedDB(1)
    /\ upChain = <<0>>
    /\ reorgs = 0
    /\ syncPaused = FALSE
    /\ TickIdle
    /\ HistInit
    /\ PoolIdle

\* a tick that reaches the end of its try block
TickSucceeds ==
    /\ batch_size' = increase_block_batch_size(batch_size)
    /\ storm' = IF storm # <<>> /\ storm[2] < MaxStormOks
                THEN <<storm[1], storm[2] + 1>> ELSE <<>>
    /\ UNCHANGED <<db, upVars, syncPaused, tickVars, histVars, poolVars,
                   m_default_block_batch_size, mq, wk, wlog, op, snap, restVars>>

\* a tick that ends in its catch block
TickFails ==
    /\ batch_size' = reduce_block_batch_size(batch_size)
    /\ storm' = IF storm # <<>> /\ storm[2] = 0 /\ storm[1] < MaxStormFails
                THEN <<storm[1] + 1, 0>> ELSE <<>>
    /\ UNCHANGED <<db, upVars, syncPaused, tickVars, histVars, poolVars,
                   m_default_block_batch_size, mq, wk, wlog, op, snap, restVars>>

NextBatch == TickSucceeds \/ TickFails

SpecBatch == InitBatch /\ [][NextBatch]_vars

(***************************************************************************)
(* The index fetch on its own: a tick has saved a batch on top of a        *)
(* mirrored chain and goes on to fetch_global_indexes; from there to the   *)
(* commit of the indexes, or through the catch block to the end of the     *)
(* tick.                                                                   *)
(***************************************************************************)
IndexBatchLens == {1, 3, 12}

InitIndexes ==
    /\ \E n \in InitLens, len \in IndexBatchLens :
          LET batch == [i \in 1..len |-> <<n + i - 1, 0>>]
              blockHeights == NumericSort(BatchHeights(batch)) IN
          /\ db = InsertRows(SyncedDB(n), batch)
          /\ upChain = [i \in 1..(n + len) |-> 0]
          /\ snap = SyncedDB(n)
          /\ pre = SyncedDB(n).blocks
          /\ checkpoints = hashesForSync(SyncedDB(n))
          /\ syncBlocks = batch /\ blockHashes = batch
          /\ transactionCount = SavedTransactionCount(batch)
          /\ minHeight = blockHeights[1] /\ maxHeight = blockHeights[Len(blockHeights)]
          /\ rwHeight = DefaultSortFirst(BatchHeights(batch))
    /\ pc = "idx_first"
    /\ rwCaller = "save" /\ stmts = <<>>
    /\ indexes = <<>> /\ headers = <<>> /\ loop_i = 0
    /\ reorgs = 0
    /\ mq = <<>> /\ wk = <<>> /\ wlog = <<>>
    /\ m_default_block_batch_size = BootBatch
    /\ batch_size = m_default_block_batch_size
    /\ syncPaused = TRUE
    /\ op = "indexes" /\ storm = <<0, 0>>
    /\ Settled
    /\ fails = 0 /\ faulted = FALSE /\ lastResult = "none"
    /\ reduceCalls = 0 /\ overlap = FALSE /\ reorgF = -1 /\ armed = "no"
    /\ PoolIdle

NextIndexes ==
    \/ FetchIndexesFull \/ FetchIndexesChunk \/ FetchIndexesCheck
    \/ SaveOutputGlobalIndexes \/ CatchRewind \/ RewindPrepare \/ RewindDelete
    \/ RewindReturn \/ CatchReduce

SpecIndexes == InitIndexes /\ [][NextIndexes]_vars

(***************************************************************************)
(* A fresh bootstrap: init() has stored the genesis block, the upstream    *)
(* chain stands still, the Collector was built with its default batch size.*)
(***************************************************************************)
BootLens == {2, 250}

InitBootstrap ==
    /\ db = SyncedDB(1)
    /\ \E n \in BootLens : upChain = [i \in 1..n |-> 0]
    /\ reorgs = 0
    /\ mq = <<>> /\ wk = <<>> /\ wlog = <<>>
    /\ m_default_block_batch_size = BootBatch
    /\ batch_size = m_default_block_batch_size
    /\ syncPaused = FALSE
    /\ RunIdle
    /\ TickIdle
    /\ HistInit
    /\ PoolIdle

NextBootstrap ==
    \/ SyncTickStart \/ CheckConsistency \/ RewindPrepare \/ RewindDelete
    \/ RewindReturn \/ HashesForSync \/ GetLastKnownBlock \/ RawSync
    \/ SaveRawBlocks \/ InsertRawBlocks \/ FetchIndexesFull \/ FetchIndexesChunk
    \/ FetchIndexesCheck \/ SaveOutputGlobalIndexes \/ FetchBlockHeaders
    \/ HeaderRetryForever \/ FetchBlockHeadersDone \/ SaveBlocksMeta
    \/ CatchRewind \/ CatchReduce

SpecBootstrap == InitBootstrap /\ [][NextBootstrap]_vars

\* fair ticking: the sync timer keeps ticking, and an awaited call that can
\* return does return, so that a tick body either reaches its end or sits
\* in the loop that repeats a call the upstream never answers
SpecBootstrapFair ==
    /\ SpecBootstrap
    /\ WF_vars(SyncTickStart)
    /\ []<>(pc \in {"idle", "hdr_retry"})

(***************************************************************************)
(* The read surface of the store, one call at a time on a database at     *)
(* rest: the first n blocks of the chain with their headers and indexes,   *)
(* and up to MaxBare blocks above them stored without header and indexes.  *)
(* query is <<number of the call, method, arguments...>>.                  *)
(***************************************************************************)
MaxCalls == 2
MaxHeightArg == 3
MaxCount == 2

\* getSyncHeight: the checkpoint query sets syncHeight, the timestamp query
\* assigns it again, the height argument raises it
syncHeightOf(d, _checkpoints, height, timestamp) ==
    LET byHash == {r[1] : r \in {r \in d.blockchain : r[2] \in Range(_checkpoints)}}
        byTime == {r[1] : r \in {r \in d.blockchain : utctimestamp(r[2]) <= timestamp}}
        s1 == IF _checkpoints # <<>> /\ byHash # {} THEN SetMax(byHash) + 1 ELSE 0
        s2 == IF timestamp > 0 /\ byTime # {} THEN SetMax(byTime) + 1 ELSE s1
    IN  IF height > s2 THEN height ELSE s2

\* everything the read surface and the pool writer leave alone
surfaceRest == <<upVars, colVars, tickVars, histVars, m_default_block_batch_size, mq, wk, wlog, op,
                 snap, storm, m_running, m_destroyed, inits, handlers, exited, poolPaused, infoPaused, poolUp, poolBodies,
                 poolStarted, poolWriter, staleWrite, infoBodies>>

GetSyncHeightCall ==
    /\ query[1] < MaxCalls
    /\ \E cps \in {<<>>, << <<0, 9>> >>} \cup {<<b>> : b \in db.blocks}
                       \cup {<< <<0, 9>>, b >> : b \in db.blocks},
          height \in {0, MaxHeightArg},
          timestamp \in {0} \cup {utctimestamp(<<h, 0>>) + 1 : h \in {0, 1, 2, 4}} :
          /\ query' = <<query[1] + 1, "getSyncHeight", cps, height, timestamp>>
          /\ answer' = <<"ok", syncHeightOf(db, cps, height, timestamp)>>
    /\ UNCHANGED <<db, transaction_pool, information, surfaceRest>>

\* Transaction.from decodes every blob (a negative one does not decode) and
\* the INSERTs of the transaction do not collide on the primary key hash
PoolCommits(transactions) ==
    /\ \A i \in DOMAIN transactions : transactions[i] >= 0
    /\ \A i, j \in DOMAIN transactions : transactions[i] = transactions[j] => i = j

\* saveTransactionPool: answers "ok" when every blob decoded and the
\* transaction committed, "Error" otherwise (also when the database fails)
SaveTransactionPoolCall ==
    /\ query[1] < MaxCalls
    /\ \E L \in {<<>>, <<1, 2, 3>>, <<2, 3, 4>>, <<2, 2>>, <<1, -1>>} :
          /\ query' = <<query[1] + 1, "saveTransactionPool", L>>
          /\ \/ /\ PoolCommits(L)
                /\ transaction_pool' = saveTransactionPool(transaction_pool, Range(L))
                /\ answer' = <<"ok">>
             \/ /\ answer' = <<"Error">>
                /\ UNCHANGED transaction_pool
    /\ UNCHANGED <<db, information, surfaceRest>>

\* lastBlockHeader: the hash of the highest block that has a header, <<>>
\* when it throws
lastBlockHeader(d) ==
    LET rows == {r \in d.blockchain : r[2] \in d.block_meta}
    IN  IF rows = {} THEN <<>>
        ELSE <<(CHOOSE r \in rows : \A q \in rows : q[1] <= r[1])[2]>>

\* transactionPoolChanges with added as the pool rows outside the known list
transactionPoolChangesNew(d, pool, lastKnownBlock, transactions) ==
    IF lastBlockHeader(d) = <<>> THEN <<"Error">>
    ELSE <<"ok", [added |-> {t \in pool : t \notin Range(transactions)},
                  deleted |-> SelectSeq(transactions, LAMBDA hash : hash \notin pool),
                  synced |-> lastKnownBlock = lastBlockHeader(d)[1]]>>

\* transactionPoolChanges: added are the pool rows whose hash the caller
\* listed, deleted the listed hashes that are in no pool row
transactionPoolChanges(d, pool, lastKnownBlock, transactions) ==
    IF lastBlockHeader(d) = <<>> THEN <<"Error">>
    ELSE <<"ok", [added |-> {t \in pool : t \in Range(transactions)},
                  deleted |-> SelectSeq(transactions, LAMBDA hash : hash \notin pool),
                  synced |-> lastKnownBlock = lastBlockHeader(d)[1]]>>

TransactionPoolChangesCall ==
    /\ query[1] < MaxCalls
    /\ \E lastKnownBlock \in db.blocks \cup {<<0, 9>>}, 
          transactions \in {<<>>, <<0, 1>>, <<1, 2, 3>>, <<4>>} :
          /\ query' = <<query[1] + 1, "transactionPoolChanges", lastKnownBlock, transactions>>
          /\ answer' = transactionPoolChanges(db, transaction_pool, lastKnownBlock,
                                              transactions)
    /\ UNCHANGED <<db, transaction_pool, information, surfaceRest>>

\* getInformation with synced computed from the heights alone
getInformationRecomputed(d, info) ==
    IF lastBlockHeader(d) = <<>> THEN <<"Error">>
    ELSE LET height == Height(lastBlockHeader(d)[1])
             networkHeight == info[1] - 1
         IN  <<"ok", [height |-> height, networkHeight |-> networkHeight,
                      synced |-> height = networkHeight]>>

\* getInformation on the stored row info = <<networkHeight, synced>>
getInformation(d, info) ==
    IF lastBlockHeader(d) = <<>> THEN <<"Error">>
    ELSE LET height == Height(lastBlockHeader(d)[1])
             networkHeight == info[1] - 1
         IN  <<"ok", [height |-> height, networkHeight |-> networkHeight,
                      synced |-> IF height # networkHeight THEN FALSE ELSE info[2]]>>

InfoCall ==
    /\ query[1] < MaxCalls
    /\ query' = <<query[1] + 1, "info">>
    /\ answer' = getInformation(db, information)
    /\ UNCHANGED <<db, transaction_pool, information, surfaceRest>>

\* randomIndexes.maxGlobalIdx: MAX(globalIdx) over the outputs of the
\* amount; the aggregate always answers one row, NULL when no index is
\* stored, and parseInt of NULL is NaN, written <<>>
maxGlobalIdx(d, amount) ==
    LET S == {r[2] : r \in {r \in d.transaction_outputs : AmountOf(r[1]) = amount}}
                \ {NULL}
    IN  IF S = {} THEN <<>> ELSE <<SetMax(S)>>

\* the subsets of S with k elements: what the drawing loop can end with
RECURSIVE KSubsets(_, _)
KSubsets(S, k) ==
    IF k = 0 THEN {{}}
    ELSE UNION {{T \cup {x} : T \in KSubsets({y \in S : y < x}, k - 1)} : x \in S}

\* randomIndexes.fetch: the outputs of the amount at the sorted indexes, in
\* any order a SELECT without ORDER BY answers them in; an empty clause
\* list is a syntax error
fetch(d, amount, idxes) ==
    LET rows == {r[2] : r \in {r \in d.transaction_outputs :
                                 AmountOf(r[1]) = amount /\ r[2] \in Range(idxes)}}
        orders == {q \in [1..Cardinality(rows) -> rows] :
                      \A i, j \in DOMAIN q : q[i] = q[j] => i = j}
    IN  IF idxes = <<>> \/ Cardinality(rows) # Len(idxes) THEN {<<"Error">>}
        ELSE {<<"ok", q>> : q \in orders}

\* randomIndexes: every outcome the random draws allow, amount after
\* amount, the first failure ending the call.  A NaN maximum compares false
\* with count and is drawn count times; the clause globalIdx = NaN is no
\* valid query
RECURSIVE randomIndexes(_, _, _)
randomIndexes(d, amounts, count) ==
    LET max == maxGlobalIdx(d, Head(amounts))
        first == IF max # <<>> /\ max[1] <= count THEN {<<"RangeError">>}
                 ELSE IF max = <<>> THEN {<<"Error">>}
                 ELSE UNION {fetch(d, Head(amounts), Ascending(S)) :
                                S \in KSubsets(0..max[1], count)}
    IN  IF amounts = <<>> THEN {<<"ok", <<>> >>}
        ELSE UNION {IF o[1] # "ok" THEN {o}
                    ELSE {IF r[1] # "ok" THEN r ELSE <<"ok", <<o[2]>> \o r[2]>> :
                             r \in randomIndexes(d, Tail(amounts), count)} :
                       o \in first}

RandomIndexesCall ==
    /\ query[1] < MaxCalls
    /\ \E amounts \in {<<1>>, <<2>>, <<1, 2>>}, count \in 0..MaxCount :
          /\ query' = <<query[1] + 1, "randomIndexes", amounts, count>>
          /\ answer' \in randomIndexes(db, amounts, count)
    /\ UNCHANGED <<db, transaction_pool, information, surfaceRest>>

\* saveBlocksMeta had it kept the last header given for a hash
MetaRowsLast(_headers) ==
    LET keep == {i \in DOMAIN _headers :
                    \A j \in DOMAIN _headers : _headers[j][1] = _headers[i][1] => j <= i}
    IN  [k \in 1..Cardinality(keep) |-> _headers[Ascending(keep)[k]]]

\* saveBlocksMeta: the rows it inserts, one for every hash, from the first
\* header given for it (a header is <<hash, its other fields>>)
MetaRows(_headers) ==
    LET keep == {i \in DOMAIN _headers :
                    \A j \in DOMAIN _headers : _headers[j][1] = _headers[i][1] => j >= i}
    IN  [k \in 1..Cardinality(keep) |-> _headers[Ascending(keep)[k]]]

\* saveBlocksMeta: nothing for an empty list; else the DELETEs and the
\* INSERTs in one transaction, which fails on a hash that is not in blocks
\* (or when the database fails).  The answer carries the rows inserted.
SaveBlocksMetaCall ==
    /\ query[1] < MaxCalls
    /\ \E x \in {b \in db.blocks : \A c \in db.blocks : Height(c) <= Height(b)}
                  \cup {<<0, 9>>} :
       \E y \in {b \in db.blocks : Height(b) = 0} \cup {x} :
       \E H \in {<<>>, << <<x, 0>> >>, << <<x, 0>>, <<x, 1>> >>,
                 << <<x, 1>>, <<y, 0>>, <<x, 0>> >>} :
          LET rows == MetaRows(H)
              hashes == [k \in DOMAIN rows |-> rows[k][1]]
          IN  /\ query' = <<query[1] + 1, "saveBlocksMeta", H>>
              /\ \/ /\ H = <<>> \/ MetaCommits(db, hashes)
                    /\ db' = IF H = <<>> THEN db ELSE InsertMeta(db, hashes)
                    /\ answer' = <<"ok", rows>>
                 \/ /\ H # <<>>
                    /\ answer' = <<"Error">>
                    /\ UNCHANGED db
    /\ snap' = db'
    /\ UNCHANGED <<transaction_pool, information, upVars, colVars, tickVars, histVars,
                   m_default_block_batch_size, mq, wk, wlog, op, storm, m_running, m_destroyed, inits,
                   handlers, exited, poolPaused, infoPaused, poolUp, poolBodies,
                   poolStarted, poolWriter, staleWrite, infoBodies>>

InitSurface ==
    /\ \E n \in {0, 1, 3, 5}, k \in 0..MaxBare :
          /\ db = StoreDB(n, k)
          /\ upChain = [i \in 1..(n + k) |-> 0]
          /\ information \in {<<nh, s>> : nh \in {n, n + 1}, s \in BOOLEAN}
    /\ transaction_pool \in {{}, PoolSnapshot(1)}
    /\ reorgs = 0
    /\ mq = <<>> /\ wk = <<>> /\ wlog = <<>>
    /\ m_default_block_batch_size = DefaultBatch
    /\ batch_size = m_default_block_batch_size
    /\ op = "surface" /\ snap = db /\ storm = <<0, 0>>
    /\ query = <<0, "none">> /\ answer = <<>>
    /\ m_running = TRUE /\ m_destroyed = FALSE
    /\ inits = << <<"await", "have", "registered">> >>
    /\ handlers = 1 /\ exited = FALSE
    /\ syncPaused = FALSE
    /\ TickIdle
    /\ HistInit
    /\ poolPaused = FALSE /\ infoPaused = FALSE
    /\ poolUp = 0 /\ poolBodies = <<>> /\ poolStarted = 0
    /\ poolWriter = 0 /\ staleWrite = FALSE /\ infoBodies = 0

NextSurface ==
    \/ GetSyncHeightCall
    \/ SaveTransactionPoolCall
    \/ TransactionPoolChangesCall
    \/ InfoCall
    \/ RandomIndexesCall
    \/ SaveBlocksMetaCall

SpecSurface == InitSurface /\ [][NextSurface]_vars

(***************************************************************************)
(* The Collector's lifecycle: init(), the genesis bootstrap and stop(),    *)
(* from construction on, with the sync tick of the registered handler.     *)
(* inits[i] is what the i-th call of init() has done so far.  The store    *)
(* found at construction is consistent: the recovery loop does not run.    *)
(***************************************************************************)
MaxInits == 2

Last(log) == log[Len(log)]

\* everything init() and stop() leave alone
lifeRest == <<upVars, colVars, tickVars, histVars, poolVars, m_default_block_batch_size, mq, wk, wlog,
              op, snap, storm, information, query, answer>>

\* init(): throw if destroyed, else throw if running, else await
\* this.database.init()
InitCall ==
    /\ ~exited
    /\ Len(inits) < MaxInits
    /\ inits' = Append(inits, IF m_destroyed \/ m_running THEN <<"rejected">>
                              ELSE <<"await">>)
    /\ UNCHANGED <<db, m_running, m_destroyed, handlers, exited, lifeRest>>

\* database.init() has returned: m_running = true, checkConsistency,
\* haveGenesis; or one of them throws and init() rejects
InitConnect ==
    \E i \in DOMAIN inits :
       /\ ~exited
       /\ Last(inits[i]) = "await"
       /\ \/ /\ ~m_destroyed
             /\ m_running' = TRUE
             /\ inits' = [inits EXCEPT ![i] =
                            Append(@, IF haveGenesis(db) THEN "have" ELSE "fetch")]
          \/ /\ m_running' \in {m_running, TRUE}
             /\ inits' = [inits EXCEPT ![i] = Append(@, "failed")]
       /\ UNCHANGED <<db, m_destroyed, handlers, exited, lifeRest>>

\* the genesis bootstrap: the await that follows each await
GenesisNext ==
    [fetch |-> "rawBlock", rawBlock |-> "block", block |-> "indexes",
     indexes |-> "saveRaw", saveRaw |-> "saveIdx", saveIdx |-> "saveMeta"]

\* rpc.rawBlock(0), rpc.block(0), rpc.indexes(0, 0)
GenesisFetch ==
    \E i \in DOMAIN inits :
       /\ ~exited
       /\ Last(inits[i]) \in {"fetch", "rawBlock", "block"}
       /\ inits' = [inits EXCEPT ![i] = Append(@, GenesisNext[Last(@)])]
       /\ UNCHANGED <<db, m_running, m_destroyed, handlers, exited, lifeRest>>

\* saveRawBlocks([genesis]) (which first rewinds to height 0),
\* saveOutputGlobalIndexes(indexes), saveBlocksMeta([genesisMeta])
GenesisSave ==
    \E i \in DOMAIN inits :
       /\ ~exited /\ ~m_destroyed
       /\ CASE Last(inits[i]) = "indexes" -> db' = InsertRows(EmptyDB, <<UpBlock(0)>>)
            [] Last(inits[i]) = "saveRaw" -> db' = UpdateGlobalIndexes(db, UpIndexes(0, 0))
            [] Last(inits[i]) = "saveIdx" ->
                  MetaCommits(db, <<UpBlock(0)>>) /\ db' = InsertMeta(db, <<UpBlock(0)>>)
            [] OTHER -> FALSE
       /\ inits' = [inits EXCEPT ![i] = Append(@, GenesisNext[Last(@)])]
       /\ UNCHANGED <<m_running, m_destroyed, handlers, exited, lifeRest>>

\* catch (e) { process.exit(1) }: a fetch or a write of the bootstrap failed
GenesisCatch ==
    \E i \in DOMAIN inits :
       /\ ~exited
       /\ Last(inits[i]) \in {"fetch", "rawBlock", "block", "indexes", "saveRaw", "saveIdx"}
       /\ inits' = [inits EXCEPT ![i] = Append(@, "exit")]
       /\ exited' = TRUE
       /\ UNCHANGED <<db, m_running, m_destroyed, handlers, lifeRest>>

\* the handlers are registered, had they been registered once the raw
\* block is stored
ReadyEarly(log) == Last(log) \in {"have", "saveRaw", "saveIdx", "saveMeta"}
\* the handlers are registered once the genesis block is there
Ready(log) == Last(log) \in {"have", "saveMeta"}

\* informationTimer.on, transactionPoolTimer.on, syncTimer.on
RegisterHandlers ==
    \E i \in DOMAIN inits :
       /\ ~exited
       /\ Ready(inits[i])
       /\ inits' = [inits EXCEPT ![i] = Append(@, "registered")]
       /\ handlers' = handlers + 1
       /\ UNCHANGED <<db, m_running, m_destroyed, exited, lifeRest>>

\* stop(): the three timers are destroyed, m_destroyed = true, the
\* database is closed
Stop ==
    /\ ~exited
    /\ ~m_destroyed
    /\ m_destroyed' = TRUE
    /\ UNCHANGED <<db, m_running, inits, handlers, exited, lifeRest>>

InitLifecycle ==
    /\ \E n \in {0, 1, 32}, a \in 1..MaxAhead :
          /\ db = SyncedDB(n)
          /\ upChain = [i \in 1..(n + a) |-> 0]
    /\ reorgs = 0
    /\ mq = <<>> /\ wk = <<>> /\ wlog = <<>>
    /\ m_default_block_batch_size = DefaultBatch
    /\ batch_size = m_default_block_batch_size
    /\ op = "collector" /\ snap = EmptyDB /\ storm = <<0, 0>>
    /\ information = <<0, FALSE>> /\ query = <<0, "none">> /\ answer = <<>>
    /\ m_running = FALSE /\ m_destroyed = FALSE /\ inits = <<>>
    /\ handlers = 0 /\ exited = FALSE
    /\ syncPaused = FALSE
    /\ TickIdle
    /\ HistInit
    /\ PoolIdle

NextLifecycle ==
    \/ InitCall \/ InitConnect \/ GenesisFetch \/ GenesisSave \/ GenesisCatch
    \/ RegisterHandlers \/ Stop
    \/ SyncTickStart \/ CheckConsistency \/ RewindPrepare \/ RewindDelete
    \/ RewindReturn \/ HashesForSync \/ GetLastKnownBlock \/ RawSync
    \/ SaveRawBlocks \/ InsertRawBlocks \/ FetchIndexesFull \/ FetchIndexesChunk
    \/ FetchIndexesCheck \/ SaveOutputGlobalIndexes \/ FetchBlockHeaders
    \/ HeaderRetryForever \/ FetchBlockHeadersDone \/ SaveBlocksMeta
    \/ CatchRewind \/ CatchReduce

SpecLifecycle == InitLifecycle /\ [][NextLifecycle]_vars

(***************************************************************************)
(* The offload worker: RawBlockWorker's message handler and saveRawBlock   *)
(* of Statements.  Every worker holds one message at a time (prefetch 1);  *)
(* a nacked message goes back to the queue.                                *)
(***************************************************************************)
Workers == 2
MaxMessages == 2
MaxDeliveries == 2

\* SELECT hash FROM blocks WHERE hash = ? : count !== 0
AlreadyStoredAtHeight(d, b) == Height(b) \in Heights(d)
AlreadyStored(d, b) == b \in d.blocks

\* { height, hash, txnCount } of both return statements of saveRawBlock
SaveRawBlockResponse(b) == <<Height(b), b, Len(TxnsOf(b))>>

\* the broker hands a queued message to a worker without one
Consume(w, m) ==
    /\ wk[w].pc = "idle"
    /\ mq[m].state = "ready" /\ mq[m].deliveries < MaxDeliveries
    /\ mq' = [mq EXCEPT ![m].state = "unacked", ![m].deliveries = @ + 1]
    /\ wk' = [wk EXCEPT ![w] = [pc |-> "select", msg |-> m, result |-> <<>>]]
    /\ UNCHANGED <<db, wlog, upVars, colVars, tickVars, histVars, poolVars,
                   m_default_block_batch_size, op, snap, storm, restVars>>

\* had the handler acked whatever happened
SettleAck(w, kind, log) ==
    /\ mq' = [mq EXCEPT ![wk[w].msg].state = "acked"]
    /\ wk' = [wk EXCEPT ![w] = [pc |-> "idle", msg |-> 0, result |-> <<>>]]
    /\ wlog' = Append(log, <<"ack", wk[w].msg, mq[wk[w].msg].deliveries, TRUE, <<>> >>)

\* return this.m_rabbit.ack(message) / nack(message): the handler is over
Settle(w, kind, log) ==
    /\ mq' = [mq EXCEPT ![wk[w].msg].state = IF kind = "ack" THEN "acked" ELSE "ready"]
    /\ wk' = [wk EXCEPT ![w] = [pc |-> "idle", msg |-> 0, result |-> <<>>]]
    /\ wlog' = Append(log, <<kind, wk[w].msg, mq[wk[w].msg].deliveries, TRUE, <<>> >>)

\* saveRawBlock up to its SELECT: loadRawBlock and processBlock throw for a
\* payload that does not decode, the query may fail; a stored block is
\* answered without a statement
SaveRawBlockSelect(w) ==
    /\ wk[w].pc = "select"
    /\ LET b == mq[wk[w].msg].payload
           thrown == Append(wlog, <<"throw", wk[w].msg, mq[wk[w].msg].deliveries, TRUE, <<wk[w].pc>> >>) IN
       \/ /\ Height(b) >= 0
          /\ wk' = [wk EXCEPT ![w].pc = IF AlreadyStored(db, b) THEN "reply" ELSE "insert",
                              ![w].result = IF AlreadyStored(db, b)
                                            THEN SaveRawBlockResponse(b) ELSE <<>>]
          /\ UNCHANGED <<mq, wlog>>
       \/ Settle(w, "nack", thrown)
    /\ UNCHANGED <<db, upVars, colVars, tickVars, histVars, poolVars,
                   m_default_block_batch_size, op, snap, storm, restVars>>

\* the rest of saveRawBlock: the multi-insert transaction
SaveRawBlockInsert(w) ==
    /\ wk[w].pc = "insert"
    /\ LET b == mq[wk[w].msg].payload
           thrown == Append(wlog, <<"throw", wk[w].msg, mq[wk[w].msg].deliveries, TRUE, <<wk[w].pc>> >>) IN
       \/ /\ InsertCommits(db, <<b>>)
          /\ db' = InsertRows(db, <<b>>)
          /\ wk' = [wk EXCEPT ![w].pc = "reply", ![w].result = SaveRawBlockResponse(b)]
          /\ UNCHANGED <<mq, wlog>>
       \/ Settle(w, "nack", thrown) /\ UNCHANGED db
    /\ UNCHANGED <<upVars, colVars, tickVars, histVars, poolVars,
                   m_default_block_batch_size, op, snap, storm, restVars>>

\* reply(message, result), then ack on success and nack otherwise; a
\* reply that throws is caught and nacked
Reply(w) ==
    /\ wk[w].pc = "reply"
    /\ LET m == wk[w].msg
           sent(ok) == Append(wlog, <<"reply", m, mq[m].deliveries, ok, wk[w].result>>)
           thrown == Append(wlog, <<"throw", m, mq[m].deliveries, TRUE, <<wk[w].pc>> >>) IN
       \/ Settle(w, "ack", sent(TRUE))
       \/ Settle(w, "nack", sent(FALSE))
       \/ Settle(w, "nack", thrown)
    /\ UNCHANGED <<db, upVars, colVars, tickVars, histVars, poolVars,
                   m_default_block_batch_size, op, snap, storm, restVars>>

\* two requests on the queue, any two payloads: the genesis block, a block
\* of height 1, another block of height 1, or bytes that do not decode;
\* the store is empty or holds the genesis block
InitWorker ==
    /\ op = "worker" /\ storm = <<0, 0>> /\ Settled
    /\ db \in {EmptyDB, SyncedDB(1)}
    /\ snap = db
    /\ upChain = <<0>> /\ reorgs = 0
    /\ m_default_block_batch_size = DefaultBatch
    /\ batch_size = m_default_block_batch_size
    /\ syncPaused = FALSE
    /\ TickIdle
    /\ HistInit
    /\ PoolIdle
    /\ mq \in [1..MaxMessages ->
                 {[payload |-> p, state |-> "ready", deliveries |-> 0] :
                     p \in {<<0, 0>>, <<1, 0>>, <<1, 1>>, <<NULL, 0>>}}]
    /\ wk = [w \in 1..Workers |-> [pc |-> "idle", msg |-> 0, result |-> <<>>]]
    /\ wlog = <<>>

NextWorker ==
    \/ \E w \in 1..Workers, m \in 1..MaxMessages : Consume(w, m)
    \/ \E w \in 1..Workers : SaveRawBlockSelect(w)
    \/ \E w \in 1..Workers : SaveRawBlockInsert(w)
    \/ \E w \in 1..Workers : Reply(w)

SpecWorker == InitWorker /\ [][NextWorker]_vars

(***************************************************************************)
(* Properties.                                                             *)
(***************************************************************************)
\* a sync tick has ended and no other has started since
TickEnded == pc = "idle" /\ lastResult # "none"

\* every stored height carries the upstream's hash for it, one row per
\* height, and the stored heights are 0..top or none
ConsistentPrefix(d) ==
    /\ \A r \in d.blockchain : OnUpstream(r[2]) /\ r[1] = Height(r[2])
    /\ \A r1, r2 \in d.blockchain : r1[1] = r2[1] => r1 = r2
    /\ Heights(d) = {} \/ Heights(d) = 0..getTopBlockHeight(d)

\* C1: while the upstream chain only grows, at the end of every sync tick,
\* successful, failed or rejected, the blockchain table is a consistent
\* prefix of the upstream chain (possibly empty).
C1_ConsistentPrefixAtTickEnd == (TickEnded /\ reorgs = 0) => ConsistentPrefix(db)

\* a tick that saved a batch of several blocks and then failed has ended,
\* leaving a non-empty table
C1_Witness ==
    /\ TickEnded /\ reorgs = 0 /\ lastResult = "failed"
    /\ Len(blockHashes) >= 2 /\ db.blockchain # {}

BlocksComplete(d) ==
    \A b \in d.blocks :
       /\ Cardinality({r \in d.blockchain : r[2] = b}) = 1
       /\ b \in d.block_meta

\* C2: after every sync tick that completes successfully, every row of
\* blocks has exactly one blockchain row and exactly one block_meta row with
\* its hash, whatever the size of the batch.
C2_BlocksCompleteAfterSuccess == (TickEnded /\ lastResult = "ok") => BlocksComplete(db)

\* C3: after every committed transaction, the single-block DELETEs of rewind
\* included, the heights of blockchain are dense over [0, top].
C3_DenseAfterEveryTransaction ==
    Heights(db) = {} \/ Heights(db) = 0..getTopBlockHeight(db)

OutputTxns(d) == {r[1] : r \in d.transaction_outputs}

ReferentialIntegrity(d) ==
    /\ \A r \in d.blockchain : r[2] \in d.blocks
    /\ d.block_meta \subseteq d.blocks
    /\ \A t \in d.transactions : BlockOf(t) \in d.blocks /\ t \in d.transaction_meta
    /\ d.transaction_meta \subseteq d.transactions
    /\ d.transaction_inputs \subseteq d.transactions
    /\ OutputTxns(d) \subseteq d.transactions
    /\ d.transaction_paymentids \subseteq d.transactions

\* C4: in every committed state reached by saveRawBlocks, rewind and reset
\* every transactions row has its transaction_meta row and an existing block,
\* and every blockchain, block_meta, transaction_meta, transaction_inputs,
\* transaction_outputs and transaction_paymentids row has its parent; a
\* block row deleted in a step leaves no dependent row behind in that step.
C4_ReferentialIntegrity == ReferentialIntegrity(db)

\* rewind has deleted a block that was stored with a user transaction, its
\* input, output and payment id, while other blocks remain
C4_Witness ==
    /\ pc = "rw_loop"
    /\ \E b \in pre : Height(b) % 2 = 1 /\ b \notin db.blocks
    /\ db.transaction_inputs # {}

\* C5: after every successful sync tick every transaction_outputs row the
\* tick inserted has a globalIdx.
C5_InsertedOutputsIndexed ==
    (TickEnded /\ lastResult = "ok") =>
        \A r \in db.transaction_outputs :
            BlockOf(r[1]) \in Range(blockHashes) => r[2] # NULL

\* C6: when a sync tick fails (the upstream only growing), the blocks of its
\* batch are gone and every block stored with its header before the tick
\* began is still stored.
C6_FailedTickKeepsEarlierBlocks ==
    (TickEnded /\ lastResult = "failed" /\ reorgs = 0) =>
        /\ pre \subseteq db.blocks
        /\ Range(blockHashes) \cap db.blocks = {}

\* C7: a sync tick in which something was thrown ends with the rewind done,
\* exactly one reduce_block_batch_size call and the ticker unpaused, and its
\* handler does not reject.
C7_ErrorsStayInTick ==
    (TickEnded /\ lastResult # "ok") =>
        /\ lastResult = "failed"
        /\ reduceCalls = 1
        /\ ~syncPaused
        /\ getBlockHashesAboveHeight(db, minHeight) = {}

C9_TickersNeverOverlap == Len(poolBodies) <= 1 /\ infoBodies <= 1 /\ ~staleWrite

\* blocks the upstream has replaced
Replaced(b) == ~OnUpstream(b)

NoRowOf(d, b) ==
    /\ b \notin d.blocks
    /\ \A r \in d.blockchain : r[2] # b
    /\ b \notin d.block_meta
    /\ \A t \in d.transactions \cup d.transaction_meta \cup d.transaction_inputs
              \cup OutputTxns(d) \cup d.transaction_paymentids : BlockOf(t) # b

\* C10: after the upstream replaced its blocks at heights >= f, f at most the
\* database top and inside the checkpoint window, the next sync tick (with
\* nothing failing in it) is successful, stores the upstream's block at f,
\* and leaves no row of a replaced block.
C10_ReorgHandled ==
    (pc = "idle" /\ armed = "checked" /\ ~faulted) =>
        /\ lastResult = "ok"
        /\ HashesAtHeight(db, reorgF) = {UpBlock(reorgF)}
        /\ \A b \in {<<h, v>> : h \in 0..UpTop, v \in 0..MaxReorgs} :
              Replaced(b) => NoRowOf(db, b)

\* C11: from a database holding nothing but what init() stores, against an
\* upstream chain of 250 blocks and with batch size 100, the sync ticks run
\* without a failure and without waiting for an answer that cannot come; each
\* ends successfully with 100, 200 or 250 blockchain rows and as many
\* block_meta rows
C11_FreshBootstrap ==
    (Len(upChain) = 250 /\ fails = 0) =>
        /\ pc # "hdr_retry"
        /\ TickEnded =>
              /\ lastResult = "ok"
              /\ Cardinality(db.blockchain) \in {100, 200, 250}
              /\ Cardinality(db.block_meta) = Cardinality(db.blockchain)

\* the rows of database d that belong to blocks below height h
BelowHeight(d, h) ==
    [blocks |-> {b \in d.blocks : Height(b) < h},
     blockchain |-> {r \in d.blockchain : r[1] < h},
     block_meta |-> {b \in d.block_meta : Height(b) < h},
     transactions |-> {t \in d.transactions : Height(BlockOf(t)) < h},
     transaction_meta |-> {t \in d.transaction_meta : Height(BlockOf(t)) < h},
     transaction_inputs |-> {t \in d.transaction_inputs : Height(BlockOf(t)) < h},
     transaction_outputs |-> {r \in d.transaction_outputs : Height(BlockOf(r[1])) < h},
     transaction_paymentids |-> {t \in d.transaction_paymentids : Height(BlockOf(t)) < h}]

\* the lowest height of a block without a block_meta row
LowestInconsistent(d) == SetMin({Height(b) : b \in d.blocks \ d.block_meta})

C13_RewindToLowestFirst ==
    pc = "insert" =>
        getBlockHashesAboveHeight(db, SetMin(BatchHeights(syncBlocks))) = {}

\* C14: saveRawBlocks run a second time on the batch it has just saved
\* succeeds and leaves the block and transaction tables as the first run
\* left them
C14_SaveRawBlocksIdempotent ==
    (op = "again" /\ fails = 0 /\ pc \in {"idx_first", "catch"}) =>
        /\ pc = "idx_first"
        /\ db = snap

C16_RewindRetries ==
    /\ [](pc = "rw_loop" =>
            /\ Range(stmts) = getBlockHashesAboveHeight(db, rwHeight)
            /\ Len(stmts) = Cardinality(Range(stmts)))
    /\ [][pc = "rw_loop" =>
            /\ pc' # "catch"
            /\ pc' # "rw_loop" => getBlockHashesAboveHeight(db', rwHeight) = {}]_vars
    /\ (pc = "rw_loop") ~> (pc # "rw_loop")

C16_Witness ==
    /\ op = "rewind" /\ pc = "rw_loop" /\ faulted
    /\ Len(stmts) >= 2 /\ db # snap

\* C17: for a configured default of at least 2 the batch size stays between
\* 2 and the default, whatever sequence of successful and failed ticks ran
C17_BatchSizeBounded ==
    m_default_block_batch_size >= MinBatch =>
        /\ MinBatch <= batch_size
        /\ batch_size <= m_default_block_batch_size

\* C17 as stated: for every configured default the batch size stays between
\* 2 and the default
C17_BatchSizeBoundedAnyDefault ==
    /\ MinBatch <= batch_size
    /\ batch_size <= m_default_block_batch_size

C17_Witness ==
    /\ m_default_block_batch_size > MinBatch
    /\ storm # <<>> /\ storm[1] >= 1 /\ storm[2] >= 1
    /\ batch_size = m_default_block_batch_size

\* C18: for every configured default a failed tick leaves the batch size as
\* it is exactly when it is 2, and a successful tick leaves it as it is
\* exactly when it is the default, so that failures lead down to 2 and
\* successes lead back up to the default
C18_BatchSizeConverges ==
    /\ reduce_block_batch_size(batch_size) = batch_size <=> batch_size = MinBatch
    /\ increase_block_batch_size(batch_size) = batch_size
          <=> batch_size = m_default_block_batch_size

\* the batch sizes of a storm with default 100: after k failed ticks, and
\* after four failed ticks and m successful ones
StormDown == <<100, 50, 25, 13, 7>>
StormUp == <<7, 9, 12, 15, 19, 24, 30, 38, 48, 60, 75, 94, 100, 100>>
StormDownStated == <<100, 50, 25, 13, 6>>
StormUpStated == <<6, 8, 10, 13, 17, 22, 28, 35, 44, 55, 69, 87, 100, 100>>

StormFollows(down, up) ==
    (m_default_block_batch_size = BootBatch /\ storm # <<>>) =>
        /\ (storm[2] = 0 /\ storm[1] < Len(down)) => batch_size = down[storm[1] + 1]
        /\ (storm[1] = Len(down) - 1 /\ storm[2] < Len(up)) => batch_size = up[storm[2] + 1]

\* C19: from batch size 100 with default 100, four failed ticks in a row run
\* at 100, 50, 25 and 13 and leave the size at 7; the successful ticks that
\* follow set 9, 12, 15, 19, 24, 30, 38, 48, 60, 75, 94, 100, and then it
\* stays 100
C19_BatchStorm == StormFollows(StormDown, StormUp)

\* C19 as stated: the fourth failure leaves 6, and the successes set 8, 10,
\* 13, 17, 22, 28, 35, 44, 55, 69, 87, 100
C19_BatchStormStated == StormFollows(StormDownStated, StormUpStated)

C19_Witness ==
    /\ m_default_block_batch_size = BootBatch
    /\ storm = <<4, 13>>
    /\ batch_size = BootBatch

\* C20: a full-range index answer of the expected length is used without a
\* chunked call; a failed or wrong-length answer makes the engine fetch the
\* whole range again in chunks; chunks that add up to the expected count are
\* committed and the tick goes on; chunks that do not make the tick fail,
\* with the database rewound to the lowest height of the batch
C20_IndexFallback ==
    /\ [][/\ (pc = "idx_first" /\ pc' = "saveIdx") => Len(indexes') = transactionCount
          /\ (pc = "idx_first" /\ pc' # "saveIdx" /\ pc' # "idx_first") =>
                pc' = "idx_chunk" /\ indexes' = <<>> /\ loop_i' = minHeight
          /\ (pc = "idx_chunk" /\ pc' # "idx_chunk") =>
                /\ loop_i > maxHeight
                /\ pc' = IF Len(indexes) = transactionCount THEN "saveIdx" ELSE "catch"
          /\ (pc = "saveIdx" /\ pc' = "headers") =>
                \A r \in db'.transaction_outputs :
                    BlockOf(r[1]) \in Range(blockHashes) => r[2] # NULL]_vars
    /\ [](pc = "saveIdx" => Len(indexes) = transactionCount)
    /\ []((pc = "reduce" /\ blockHashes # <<>> /\ Len(indexes) # transactionCount) =>
            /\ rwHeight = SetMin(BatchHeights(blockHashes))
            /\ getBlockHashesAboveHeight(db, rwHeight) = {}
            /\ db = snap)
    /\ []((op = "indexes" /\ pc = "idle") =>
            /\ lastResult \in {"failed", "rejected"}
            /\ lastResult = "failed" => batch_size = reduce_block_batch_size(BootBatch))

C20_Witness ==
    /\ op = "indexes" /\ pc = "reduce"
    /\ Len(blockHashes) = 12
    /\ Len(indexes) # transactionCount
    /\ db = snap

\* C21: at every step of the header walk the bulk blockHeaders call is
\* requested, and the fallback of a step that got no headers from it is
\* exactly 30 single fetches
C21_HeaderRetryProtocol ==
    (pc = "headers" /\ HeaderLoopRuns(loop_i, minHeight)) =>
        /\ BulkRequested
        /\ Len(BulkHeaders(loop_i)) = 0 => Len(FallbackHeights(loop_i)) = HeaderStep

\* a chain without gaps: one block at every height from 0 to the top
GapFree(d) ==
    /\ Heights(d) = 0..(Cardinality(d.blockchain) - 1)
    /\ Cardinality(d.blocks) = Cardinality(d.blockchain)

\* the heights T, ..., max(0, T - 10), then b - 2, b - 2 - 4, ... while
\* positive (b the lowest of the first part), then 0
CheckpointHeights(T) ==
    LET b == IF T > 10 THEN T - 10 ELSE 0
        dense == [i \in 1..(T - b + 1) |-> T - i + 1]
        K == {k \in 1..b : b - (2 ^ (k + 1) - 2) > 0}
        sparse == [k \in 1..Cardinality(K) |-> b - (2 ^ (k + 1) - 2)] IN
    dense \o sparse \o (IF b = 0 THEN <<>> ELSE <<0>>)

\* C22: hashesForSync on a chain without gaps answers nothing for an empty
\* chain, and else the hashes at the heights T .. max(0, T - 10), then at
\* the heights 2, 4, 8, ... further down each while positive, then genesis:
\* strictly descending in height, hence without duplicates
C22_HashesForSync ==
    (pc = "lastKnown" /\ ~faulted /\ GapFree(db)) =>
        IF db.blockchain = {} THEN checkpoints = <<>>
        ELSE /\ checkpoints = [i \in DOMAIN CheckpointHeights(getTopBlockHeight(db)) |->
                                  hashFromHeight(db, CheckpointHeights(getTopBlockHeight(db))[i])]
             /\ \A i \in 1..(Len(checkpoints) - 1) :
                    Height(checkpoints[i]) > Height(checkpoints[i + 1])

C22_Witness ==
    /\ pc = "lastKnown" /\ ~faulted /\ GapFree(db)
    /\ Len(checkpoints) > TopCheckpoints + 2

\* the greatest of a set of heights, 0 when there is none
MaxOr0(S) == IF S = {} THEN 0 ELSE SetMax(S)

\* C23: getSyncHeight(checkpoints, height, timestamp) returns the maximum
\* of 1 + the greatest height of a checkpoint found in blockchain, 1 + the
\* greatest height whose utctimestamp is at most timestamp (when timestamp
\* > 0 and such a block exists), and the height argument, 0 when none
\* applies; so it is never lower than the checkpoint-derived value.
C23_SyncHeightIsMaximum ==
    (query[2] = "getSyncHeight") =>
        LET byHash == {r[1] + 1 : r \in {r \in db.blockchain : r[2] \in Range(query[3])}}
            byTime == IF query[5] > 0
                      THEN {r[1] + 1 : r \in {r \in db.blockchain :
                                                utctimestamp(r[2]) <= query[5]}}
                      ELSE {}
        IN  answer = <<"ok", MaxOr0(byHash \cup byTime \cup {query[4]})>>

\* C24: after a successful saveTransactionPool(L) the table holds exactly
\* L's transactions and no row of an earlier snapshot, so saving L twice
\* leaves what saving it once leaves; after a failed one (a blob that does
\* not decode, a failed transaction) the table holds what it held before.
C24_PoolSnapshotReplaced ==
    [][(query' # query /\ query'[2] = "saveTransactionPool") =>
          /\ answer' = <<"ok">> => transaction_pool' = Range(query'[3])
          /\ answer' # <<"ok">> => transaction_pool' = transaction_pool
          /\ (/\ query[2] = "saveTransactionPool" /\ answer = <<"ok">>
              /\ query'[3] = query[3] /\ answer' = <<"ok">>)
                => transaction_pool' = transaction_pool]_vars

\* the pool was saved twice and the second save replaced a different
\* snapshot
C24_Witness ==
    /\ query[1] = 2 /\ query[2] = "saveTransactionPool" /\ answer = <<"ok">>
    /\ query[3] = <<2, 3, 4>> /\ transaction_pool = {2, 3, 4}

\* C25: transactionPoolChanges(lastKnownBlock, known) returns as added the
\* pool transactions whose hash is in known, as deleted the hashes of known
\* that are not in the pool, and synced exactly when lastKnownBlock is the
\* hash of the top block that has a header; pool {B, C, D} and known [A, B]
\* give added [B] and deleted [A]; no table changes.
C25_PoolChanges ==
    (query[2] = "transactionPoolChanges" /\ answer[1] = "ok") =>
        /\ answer[2].added = transaction_pool \cap Range(query[4])
        /\ Range(answer[2].deleted) = Range(query[4]) \ transaction_pool
        /\ answer[2].synced =
              (/\ query[3] \in db.block_meta
               /\ \A b \in db.block_meta :
                     <<Height(b), b>> \in db.blockchain => Height(b) <= Height(query[3]))
        /\ (transaction_pool = {1, 2, 3} /\ query[4] = <<0, 1>>) =>
              answer[2].added = {1} /\ answer[2].deleted = <<0>>
        /\ db = snap

C25_Witness ==
    /\ query[2] = "transactionPoolChanges" /\ answer[1] = "ok"
    /\ transaction_pool = {1, 2, 3} /\ query[4] = <<0, 1>> /\ answer[2].synced

\* C26: randomIndexes(amounts, n) fails with an out-of-range error for an
\* amount whose maximum globalIdx is at most n, also when the amount has no
\* output; otherwise it returns, for each amount, exactly n outputs with
\* pairwise distinct indexes in [0, maximum], in ascending order.
C26_RandomIndexes ==
    (query[2] = "randomIndexes") =>
        LET MaxOf(a) == {r[2] : r \in {r \in db.transaction_outputs : AmountOf(r[1]) = a}}
                            \ {NULL}
            TooFew(a) == MaxOf(a) = {} \/ SetMax(MaxOf(a)) <= query[4]
        IN  IF \E i \in DOMAIN query[3] : TooFew(query[3][i])
            THEN answer = <<"RangeError">>
            ELSE /\ answer[1] = "ok"
                 /\ Len(answer[2]) = Len(query[3])
                 /\ \A i \in DOMAIN answer[2] :
                       /\ Len(answer[2][i]) = query[4]
                       /\ \A j \in DOMAIN answer[2][i] :
                             answer[2][i][j] \in 0..SetMax(MaxOf(query[3][i]))
                       /\ \A j \in 1..(Len(answer[2][i]) - 1) :
                             answer[2][i][j] < answer[2][i][j + 1]

\* C27: info() reports the height of the top block, the stored networkHeight
\* less one, and synced exactly when the two are equal, whatever synced flag
\* the upstream stored.
C27_InfoSyncedByHeights ==
    (query[2] = "info" /\ answer[1] = "ok") =>
        /\ answer[2].height = Height(lastBlockHeader(db)[1])
        /\ answer[2].networkHeight = information[1] - 1
        /\ answer[2].synced = (answer[2].height = answer[2].networkHeight)

\* C27 as amended: synced exactly when the heights are equal and the stored
\* upstream flag is true.
C27_InfoMirrored ==
    (query[2] = "info" /\ answer[1] = "ok") =>
        /\ answer[2].height = Height(lastBlockHeader(db)[1])
        /\ answer[2].networkHeight = information[1] - 1
        /\ answer[2].synced =
              (answer[2].height = answer[2].networkHeight /\ information[2])

C27_Witness ==
    /\ query[2] = "info" /\ answer[1] = "ok"
    /\ answer[2].height = answer[2].networkHeight /\ answer[2].height > 0
    /\ ~information[2] /\ ~answer[2].synced

\* the calls of init() that were not rejected at once
Admitted == {i \in DOMAIN inits : inits[i] # <<"rejected">>}

\* C28: init() is rejected whenever the instance is destroyed or already
\* running, also a second init() issued while the first is still awaiting;
\* so the tick handlers are registered at most once; running and destroyed
\* never go back to false; after stop() every init() is rejected.
C28_InitOnce ==
    /\ [](Cardinality(Admitted) <= 1 /\ handlers <= 1)
    /\ [][/\ m_running => m_running'
          /\ m_destroyed => m_destroyed'
          /\ (m_destroyed /\ Len(inits') > Len(inits)) => Last(inits') = <<"rejected">>]_vars

\* C29: after stop() no new tick body starts, also when a sync tick was in
\* flight at stop(); the tick in flight runs to its end or fails without
\* raising outside the tick.
C29_StopQuiesces ==
    [][m_destroyed =>
          /\ pc = "idle" => pc' = "idle"
          /\ (pc # "idle" /\ pc' = "idle") => lastResult' # "rejected"]_vars

\* what a call of init() does on a store without genesis block, in order
BootstrapRun ==
    <<"await", "fetch", "rawBlock", "block", "indexes", "saveRaw", "saveIdx", "saveMeta",
      "registered">>

IsPrefix(s, t) == Len(s) <= Len(t) /\ SubSeq(t, 1, Len(s)) = s

FirstOf(H, hash) == SetMin({i \in DOMAIN H : H[i][1] = hash})

\* C31: for every header list H whose hashes exist in blocks, duplicates
\* allowed, saveBlocksMeta(H) leaves exactly one block_meta row per distinct
\* hash of H, from the first header given for that hash; a second
\* saveBlocksMeta(H) leaves block_meta unchanged; when the transaction
\* fails block_meta is unchanged.
C31_SaveBlocksMetaIdempotent ==
    [][(query' # query /\ query'[2] = "saveBlocksMeta") =>
          LET H == query'[3]
              hashes == {H[i][1] : i \in DOMAIN H} IN
          /\ answer'[1] = "ok" =>
                /\ db'.block_meta = db.block_meta \cup hashes
                /\ \A hash \in hashes :
                      /\ Cardinality({k \in DOMAIN answer'[2] : answer'[2][k][1] = hash}) = 1
                      /\ H[FirstOf(H, hash)] \in Range(answer'[2])
                /\ Len(answer'[2]) = Cardinality(hashes)
          /\ answer'[1] # "ok" => db'.block_meta = db.block_meta
          /\ (query[2] = "saveBlocksMeta" /\ answer[1] = "ok" /\ query[3] = H
              /\ answer'[1] = "ok") => (db' = db /\ answer'[2] = answer[2])]_vars

\* headers were saved from a list that names one hash with two headers,
\* and every stored block has its header now
C31_Witness ==
    /\ query[1] = 2 /\ query[2] = "saveBlocksMeta" /\ answer[1] = "ok"
    /\ Len(query[3]) = 3 /\ Len(answer[2]) = 2
    /\ db.blocks = db.block_meta /\ Cardinality(db.blocks) = 2

\* C32: the globalIdx of an output row is written once, in the tick that
\* ingested its block, and no later sync tick writes it again while the
\* block stays stored: the UPDATEs of a tick name only outputs of the
\* blocks of its batch, which carry no index yet, and a tick with an empty
\* batch issues none.
C32_GlobalIdxWrittenOnce ==
    /\ [](pc = "saveIdx" =>
            \A i \in DOMAIN indexes :
               indexes[i] \in db.transactions =>
                  /\ BlockOf(indexes[i]) \in Range(syncBlocks)
                  /\ <<indexes[i], NULL>> \in db.transaction_outputs)
    /\ [][\A r \in db.transaction_outputs :
             (r[2] # NULL /\ r[1] \in db'.transactions) => r \in db'.transaction_outputs]_vars

\* the indexes of a batch are about to be written into a store that holds
\* indexed outputs of earlier blocks
C32_Witness ==
    /\ pc = "saveIdx" /\ indexes # <<>> /\ ~faulted
    /\ \A i \in DOMAIN indexes : indexes[i] \in db.transactions
    /\ \E r \in db.transaction_outputs : r[2] # NULL

\* the acks and nacks issued for message m
Settlements(m) == {i \in DOMAIN wlog : wlog[i][1] \in {"ack", "nack"} /\ wlog[i][2] = m}

\* C33: for every raw-block message a worker consumed, the worker issues
\* exactly one ack or one nack per delivery; an ack comes only after the
\* block's rows are committed (or were already there) and the reply was
\* sent successfully; an exception while decoding or persisting, or an
\* unsuccessful reply, ends in a nack and never in an ack.
C33_ReplyProtocol ==
    \A m \in DOMAIN mq :
       /\ Cardinality(Settlements(m)) =
             mq[m].deliveries - (IF mq[m].state = "unacked" THEN 1 ELSE 0)
       /\ \A i, j \in Settlements(m) : wlog[i][3] = wlog[j][3] => i = j
       /\ \A i \in Settlements(m) :
             IF wlog[i][1] = "ack"
             THEN /\ mq[m].payload \in db.blocks
                  /\ Range(TxnsOf(mq[m].payload)) \subseteq db.transactions
                  /\ Range(TxnsOf(mq[m].payload)) \subseteq {r[1] : r \in db.transaction_outputs}
                  /\ \E j \in 1..(i - 1) : wlog[j] = <<"reply", m, wlog[i][3], TRUE,
                                                     SaveRawBlockResponse(mq[m].payload)>>
                  /\ \A j \in DOMAIN wlog :
                        (wlog[j][2] = m /\ wlog[j][3] = wlog[i][3]) =>
                           /\ wlog[j][1] # "throw"
                           /\ wlog[j][1] = "reply" => wlog[j][4]
             ELSE \E j \in 1..(i - 1) :
                     /\ wlog[j][2] = m /\ wlog[j][3] = wlog[i][3]
                     /\ wlog[j][1] = "throw" \/ (wlog[j][1] = "reply" /\ ~wlog[j][4])

\* a message was nacked after an exception, delivered again and acked, and
\* the other one was nacked after an unsuccessful reply
C33_Witness ==
    /\ \E i, j \in DOMAIN wlog :
          /\ wlog[i][1] = "throw" /\ wlog[i][3] = 1
          /\ wlog[j][1] = "ack" /\ wlog[j][2] = wlog[i][2] /\ wlog[j][3] = 2
    /\ \E i \in DOMAIN wlog : wlog[i][1] = "reply" /\ ~wlog[i][4]

\* C34: processing the same raw block more than once, by redelivery or by
\* two workers at once, leaves the rows of one processing in every table;
\* a processing that finds the block stored inserts nothing and replies
\* with the height, hash and txnCount of the processing that stored it.
C34_WorkerIdempotent ==
    /\ [](LET stored == SelectSeq([m \in DOMAIN mq |-> mq[m].payload],
                                  LAMBDA b : b \in db.blocks \ snap.blocks)
          IN  /\ db = InsertRows(snap, stored)
              /\ \A i \in DOMAIN wlog :
                    wlog[i][1] = "reply" =>
                       /\ mq[wlog[i][2]].payload \in db.blocks
                       /\ wlog[i][5] = SaveRawBlockResponse(mq[wlog[i][2]].payload))
    /\ [][\A w \in DOMAIN wk :
             (/\ wk[w].pc = "select" /\ wk'[w].pc \notin {"select", "idle"}
              /\ mq[wk[w].msg].payload \in db.blocks) =>
                /\ db' = db
                /\ wk'[w].pc = "reply"
                /\ wk'[w].result = SaveRawBlockResponse(mq[wk[w].msg].payload)]_vars

\* both requests carried the same block, both were answered and acked, and
\* one of the two processings failed in its insert transaction
C34_Witness ==
    /\ mq[1].payload = mq[2].payload /\ mq[1].payload \notin snap.blocks
    /\ mq[1].state = "acked" /\ mq[2].state = "acked"
    /\ \E i \in DOMAIN wlog : wlog[i][1] = "throw" /\ wlog[i][5] = <<"insert">>
    /\ Cardinality({i \in DOMAIN wlog : wlog[i][1] = "reply" /\ wlog[i][4]}) = 2

\* C35: the chunked index fetch covers the range exactly: the chunks
\* [i, min(i + 10, endHeight)] for i = startHeight, startHeight + 11, ...
\* hold every height of [startHeight, endHeight] once and none outside, a
\* chunk is requested again until it is answered, and the answers are
\* concatenated in ascending order.
C35_ChunksCoverRange ==
    /\ [](pc = "idx_chunk" =>
            LET done == IF loop_i - 1 < maxHeight THEN loop_i - 1 ELSE maxHeight
                at(h) == SelectSeq(indexes, LAMBDA t : Height(BlockOf(t)) = h)
                closes(h) == h = maxHeight \/ (h - minHeight) % (IndexChunk + 1) = IndexChunk
            IN  /\ loop_i >= minHeight /\ (loop_i - minHeight) % (IndexChunk + 1) = 0
                /\ \A i \in DOMAIN indexes : Height(BlockOf(indexes[i])) \in minHeight..done
                /\ \A i, j \in DOMAIN indexes :
                      i <= j => Height(BlockOf(indexes[i])) <= Height(BlockOf(indexes[j]))
                /\ \A h \in minHeight..done :
                      \/ at(h) = TxnsOf(UpBlock(h))
                      \/ closes(h) /\ at(h) = Short(TxnsOf(UpBlock(h))))
    /\ [][(pc = "idx_chunk" /\ pc' # "idx_chunk") => loop_i > maxHeight]_vars

\* a range of twelve heights was fetched in two chunks, after rejected
\* calls, and the concatenation is the answer for the whole range
C35_Witness ==
    /\ pc = "idx_chunk" /\ loop_i > maxHeight /\ maxHeight - minHeight = IndexChunk + 1
    /\ fails >= 2
    /\ indexes = UpIndexes(minHeight, maxHeight)

\* C36: a tick writes raw blocks, then output global indexes, then block
\* headers, so in every reachable state, also when the collector is
\* stopped in the middle of a tick, a block with a block_meta row has the
\* global index of every output written.
C36_MetaImpliesIndexes ==
    \A r \in db.transaction_outputs :
       BlockOf(r[1]) \in db.block_meta => r[2] # NULL

\* C37: for every persisted batch the header requests of the walk from
\* maxHeight down to just above minHeight in steps of 30 cover every height
\* of [minHeight, maxHeight], a batch of a single block and a batch whose
\* span is a multiple of 30 included: when the walk is over on an unchanged
\* upstream chain, it holds the header of every block of the batch.
C37_HeaderWalkCovers ==
    (pc = "saveMeta" /\ reorgs = 0 /\ blockHashes # <<>>) =>
        {Height(h) : h \in Range(headers)} = minHeight..maxHeight

\* C38: against an upstream that answers every request for a height it has
\* and rejects the others, the header fetch terminates for every batch
\* range 0 <= minHeight <= maxHeight: it never asks, in a loop that retries
\* for ever, for a height outside [0, upstream top], so the sync ticker is
\* unpaused in the end.
C38_HeaderFetchTerminates == pc # "hdr_retry"

\* C39: once init has stored the genesis block with its header, no sync
\* tick deletes it: after any sequence of successful and failed ticks
\* haveGenesis() is true and hashesForSync() is not empty.
C39_GenesisKept ==
    TickEnded => (haveGenesis(db) /\ hashesForSync(db) # <<>>)

\* C40: with the upstream available, answering correctly and its chain
\* fixed at any length N >= 1 (lengths that leave a last batch of one block
\* included), under fair ticking the collector reaches and keeps a state in
\* which the database holds all N blocks, each with a block_meta row.
C40_EventuallySynchronised ==
    <>[](/\ db.blocks = {UpBlock(h) : h \in 0..UpTop}
         /\ db.block_meta = db.blocks)

====
